---- MODULE Spec2Model ----
(***************************************************************************)
(* Model of webhooks-extension/pkg/endpoints/webhook.go: the createWebhook *)
(* and deleteWebhook handlers, the event listener (the shared trigger      *)
(* collection) they read and write, and the pure helpers they use.         *)
(*                                                                         *)
(* Go strings are sequences of one-character strings, so that prefix,      *)
(* suffix, lower-casing and slicing are computed as the code computes      *)
(* them.  Strings that the code only stores or compares for equality       *)
(* against a literal (header names, event filters) are TLA+ strings.       *)
(***************************************************************************)
EXTENDS Integers, Sequences, FiniteSets, TLC

(***************************************************************************)
(* Bounds of the model.                                                    *)
(***************************************************************************)
\* Number of requests (create or delete) served in one behaviour.
MaxRequests == 4
\* Number of collaborator calls that may fail in one behaviour.
MaxFaults == 1
\* Number of values of rand.Intn(n) the handlers draw from: the least
\* RandSample - 1 values and the greatest, n - 1.
RandSample == 2
\* The same for the calls of generateMonitorTriggerName followed alone.
GenRandSample == 2
\* Number of triggers in the lists handed to generateMonitorTriggerName alone.
MaxExisting == 2

(***************************************************************************)
(* Program constants.                                                      *)
(***************************************************************************)
\* rand.Intn(10000) in generateMonitorTriggerName.
RandLimit == 10000
\* len(webhook.Name) > 57 is rejected.
MaxNameLen == 57
\* len(pieces) < 4 is rejected.
MinPieces == 4

(***************************************************************************)
(* strings package                                                         *)
(***************************************************************************)
UpperChars == <<"A","B","C","D","E","F","G","H","I","J","K","L","M",
                "N","O","P","Q","R","S","T","U","V","W","X","Y","Z">>
LowerChars == <<"a","b","c","d","e","f","g","h","i","j","k","l","m",
                "n","o","p","q","r","s","t","u","v","w","x","y","z">>

ToLowerChar(c) ==
    IF \E i \in 1..Len(UpperChars) : UpperChars[i] = c
    THEN LowerChars[CHOOSE i \in 1..Len(UpperChars) : UpperChars[i] = c]
    ELSE c

\* strings.ToLower
ToLower(s) == [i \in 1..Len(s) |-> ToLowerChar(s[i])]

\* strings.HasPrefix
HasPrefix(s, p) == Len(p) <= Len(s) /\ SubSeq(s, 1, Len(p)) = p

\* strings.HasSuffix
HasSuffix(s, p) == Len(p) <= Len(s) /\ SubSeq(s, Len(s) - Len(p) + 1, Len(s)) = p

\* strings.TrimPrefix
TrimPrefix(s, p) == IF HasPrefix(s, p) THEN SubSeq(s, Len(p) + 1, Len(s)) ELSE s

\* strings.TrimSuffix
TrimSuffix(s, p) == IF HasSuffix(s, p) THEN SubSeq(s, 1, Len(s) - Len(p)) ELSE s

\* strings.Contains
Contains(s, sub) ==
    \E i \in 1..(Len(s) - Len(sub) + 1) : SubSeq(s, i, i + Len(sub) - 1) = sub

\* strings.Count(s, c) for a one-character c
Count(s, c) == Cardinality({i \in 1..Len(s) : s[i] = c})

\* strings.Index(s, c) for a one-character c: 0-based, -1 when absent
Index(s, c) ==
    IF \E i \in 1..Len(s) : s[i] = c
    THEN (CHOOSE i \in 1..Len(s) : s[i] = c /\ \A j \in 1..(i-1) : s[j] # c) - 1
    ELSE -1

\* strings.LastIndex(s, c) for a one-character c: 0-based, -1 when absent
LastIndex(s, c) ==
    IF \E i \in 1..Len(s) : s[i] = c
    THEN (CHOOSE i \in 1..Len(s) : s[i] = c /\ \A j \in (i+1)..Len(s) : s[j] # c) - 1
    ELSE -1

\* The Go slice expression s[lo:hi] with 0-based bounds; SliceOK says whether
\* it is defined (it panics otherwise).
SliceOK(s, lo, hi) == 0 <= lo /\ lo <= hi /\ hi <= Len(s)
Slice(s, lo, hi) == SubSeq(s, lo + 1, hi)

Digits == <<"0","1","2","3","4","5","6","7","8","9">>

\* strconv.Itoa for n >= 0
RECURSIVE Itoa(_)
Itoa(n) == IF n < 10 THEN <<Digits[n + 1]>>
           ELSE Itoa(n \div 10) \o <<Digits[(n % 10) + 1]>>

(***************************************************************************)
(* String literals of the source.                                          *)
(***************************************************************************)
HttpsScheme == <<"h","t","t","p","s",":","/","/">>
HttpScheme == <<"h","t","t","p",":","/","/">>
HttpWord == <<"h","t","t","p">>
DotGit == <<".","g","i","t">>
Slash == <<"/">>
Dash == <<"-">>
Dot == <<".">>
PushEventSuffix == <<"-","p","u","s","h","-","e","v","e","n","t">>
PullRequestEventSuffix ==
    <<"-","p","u","l","l","r","e","q","u","e","s","t","-","e","v","e","n","t">>
PushBindingSuffix == <<"-","p","u","s","h","-","b","i","n","d","i","n","g">>
PullRequestBindingSuffix ==
    <<"-","p","u","l","l","r","e","q","u","e","s","t","-","b","i","n","d","i","n","g">>
TemplateSuffix == <<"-","t","e","m","p","l","a","t","e">>
BindingSuffix == <<"-","b","i","n","d","i","n","g">>
WextPrefix == <<"w","e","x","t","-">>
\* const webhookextPullTask
webhookextPullTask == <<"m","o","n","i","t","o","r","-","t","a","s","k">>

(***************************************************************************)
(* getGitValues: a Git URL into server, owner and repository, lower-cased. *)
(* status is "ok", "err" (the error return) or "panic" (a slice expression *)
(* out of range).                                                          *)
(***************************************************************************)
GitValuesErr == [status |-> "err", server |-> <<>>, owner |-> <<>>, repo |-> <<>>]

\* Lines 510-519: the slices of repoURL at its first and last slash; the
\* repository ends at repoEnd.
GitValuesAt(prefix, repoURL, first, last, repoEnd) ==
    IF /\ SliceOK(repoURL, 0, first)
       /\ SliceOK(repoURL, first + 1, last)
       /\ SliceOK(repoURL, last + 1, repoEnd)
    THEN [status |-> "ok",
          server |-> prefix \o Slice(repoURL, 0, first),
          owner |-> Slice(repoURL, first + 1, last),
          repo |-> Slice(repoURL, last + 1, repoEnd)]
    ELSE [status |-> "panic", server |-> <<>>, owner |-> <<>>, repo |-> <<>>]

\* Lines 505-517, repoURL being the URL without its scheme.
GitValuesOf(prefix, repoURL, url) ==
    IF Count(repoURL, "/") < 2
    THEN GitValuesErr
    ELSE GitValuesAt(prefix, TrimSuffix(repoURL, Slash),
                     Index(TrimSuffix(repoURL, Slash), "/"),
                     LastIndex(TrimSuffix(repoURL, Slash), "/"),
                     IF HasSuffix(url, DotGit)
                     THEN Len(TrimSuffix(repoURL, Slash)) - 4
                     ELSE Len(TrimSuffix(repoURL, Slash)))

\* Lines 496-502, url being lower-cased.
GitValuesOfLower(url) ==
    IF Contains(url, HttpsScheme)
    THEN GitValuesOf(HttpsScheme, TrimPrefix(url, HttpsScheme), url)
    ELSE GitValuesOf(HttpScheme, TrimPrefix(url, HttpScheme), url)

getGitValues(url0) ==
    IF url0 = <<>> THEN GitValuesErr ELSE GitValuesOfLower(ToLower(url0))

\* Lines 200-209 on the two parsed URLs.
CompareValues(v1, v2) ==
    IF v1.status = "panic" \/ v2.status = "panic"
    THEN [status |-> "panic", match |-> FALSE]
    ELSE IF v1.status # "ok" \/ v2.status # "ok"
    THEN [status |-> "err", match |-> FALSE]
    ELSE [status |-> "ok",
          match |-> /\ v1.server = v2.server
                    /\ v1.owner = v2.owner
                    /\ v1.repo = v2.repo]

\* compareGitRepoNames: both URLs are parsed before either error is looked
\* at; status "err" when either URL does not parse.
compareGitRepoNames(url1, url2) ==
    CompareValues(getGitValues(url1), getGitValues(url2))

(***************************************************************************)
(* Data of the program.                                                    *)
(***************************************************************************)
\* The fields of the webhook struct that the handlers compare or derive
\* names from.
NewWebhook(name, namespace, pipeline, url, pullTask) ==
    [Name |-> name, Namespace |-> namespace, Pipeline |-> pipeline,
     GitRepositoryURL |-> url, PullTask |-> pullTask]

NoWebhook == NewWebhook(<<>>, <<>>, <<>>, <<>>, <<>>)

\* The zero value of v1alpha1.EventListenerTrigger (var monitorTrigger).
ZeroTrigger ==
    [Name |-> <<>>, Bindings |-> <<>>, Template |-> <<>>, Interceptors |-> <<>>]

\* var actions: the Wext-Incoming-Actions header.
actions == [Name |-> "Wext-Incoming-Actions", Value |-> "opened,reopened,synchronize"]

\* newTrigger: two binding references (Ref set, Name left empty), a template
\* and one interceptor with four headers.
newTrigger(name, bindingName, templateName, repoURL, event, secretName, extraBindingName) ==
    [Name |-> name,
     Bindings |-> << [Ref |-> bindingName, Name |-> <<>>],
                     [Ref |-> extraBindingName, Name |-> <<>>] >>,
     Template |-> templateName,
     Interceptors |-> <<
        [Header |-> << [Name |-> "Wext-Trigger-Name", Value |-> name],
                       [Name |-> "Wext-Repository-Url", Value |-> repoURL],
                       [Name |-> "Wext-Incoming-Event", Value |-> event],
                       [Name |-> "Wext-Secret-Name", Value |-> secretName] >>] >>]

\* t.Interceptors[0].Webhook.Header = append(..., actions)
WithActions(t) ==
    [t EXCEPT !.Interceptors[1].Header = Append(@, actions)]

PushEvents == "push, Push Hook, Tag Push Hook"
PullRequestEvents == "pull_request, Merge Request Hook"
\* webhook.AccessTokenRef: the same secret in every request of the model.
AccessTokenRef == "token"

\* r.Defaults.Namespace
InstallNamespace == <<"i">>

\* The pipelines whose template and base bindings are installed.
InstalledPipelines == {<<"p">>, <<"q">>}

(***************************************************************************)
(* The stores the handlers call.  An event listener is a record            *)
(* [exists, triggers]; the binding store is a set of records               *)
(* [Name, Params] holding the bindings this service created, beside the    *)
(* base bindings of the installed pipelines.                               *)
(***************************************************************************)
NoEventListener == [exists |-> FALSE, triggers |-> <<>>]

\* getParams: the hook binding's params that getHookFromTrigger reads back
\* into the fields of the model's webhook.
HookParams(webhook) ==
    << [Name |-> "webhooks-tekton-target-namespace", Value |-> webhook.Namespace],
       [Name |-> "webhooks-tekton-pull-task", Value |-> webhook.PullTask] >>

BaseBindingNames ==
    UNION {{pl \o PushBindingSuffix, pl \o PullRequestBindingSuffix} :
           pl \in InstalledPipelines}

\* TriggerBindings(ns).Get(ref) against the store bs.
BindingGet(bs, ref) ==
    IF \E b \in bs : b.Name = ref
    THEN [found |-> TRUE, Params |-> (CHOOSE b \in bs : b.Name = ref).Params]
    ELSE [found |-> ref \in BaseBindingNames, Params |-> <<>>]

\* The value of the last param called name among the params of the trigger's
\* bindings, taken in order; none when no binding has it.
RECURSIVE LastParam(_, _, _)
LastParam(params, name, none) ==
    IF params = <<>> THEN none
    ELSE IF params[Len(params)].Name = name THEN params[Len(params)].Value
    ELSE LastParam(SubSeq(params, 1, Len(params) - 1), name, none)

RECURSIVE AllParams(_, _)
AllParams(bs, refs) ==
    IF refs = <<>> THEN <<>>
    ELSE BindingGet(bs, Head(refs).Ref).Params \o AllParams(bs, Tail(refs))

\* The value of the last header called name of the first interceptor.
HeaderValue(t, name, none) == LastParam(t.Interceptors[1].Header, name, none)

BrokenWebhookName ==
    <<"B","r","o","k","e","n"," ","w","e","b","h","o","o","k","!"," ",
      "R","e","s","o","u","r","c","e","s"," ","n","o","t"," ","f","o","u","n","d">>

\* getHookFromTrigger
getHookFromTrigger(bs, t, suffix) ==
    LET params == AllParams(bs, t.Bindings)
        broken == \E i \in 1..Len(t.Bindings) : ~BindingGet(bs, t.Bindings[i].Ref).found
        tName == IF broken THEN BrokenWebhookName ELSE t.Name
        ns0 == LastParam(params, "webhooks-tekton-target-namespace", <<>>)
        namespace == IF ns0 = <<>> THEN InstallNamespace ELSE ns0
    IN NewWebhook(TrimSuffix(tName, Dash \o namespace \o suffix),
                  namespace,
                  TrimSuffix(t.Template, TemplateSuffix),
                  HeaderValue(t, "Wext-Repository-Url", <<>>),
                  LastParam(params, "webhooks-tekton-pull-task", <<>>))

\* containedInArray
containedInArray(array, hook) == \E i \in 1..Len(array) : array[i] = hook

\* getWebhooksFromEventListener on a listener that was read: one webhook per
\* push or pull-request trigger, without repetitions.
RECURSIVE HooksOfTriggers(_, _, _)
HooksOfTriggers(bs, triggers, hooks) ==
    IF triggers = <<>> THEN hooks
    ELSE LET trigger == Head(triggers)
             checkHook == \/ HasSuffix(trigger.Name, PushEventSuffix)
                          \/ HasSuffix(trigger.Name, PullRequestEventSuffix)
             hook == IF HasSuffix(trigger.Name, PushEventSuffix)
                     THEN getHookFromTrigger(bs, trigger, PushEventSuffix)
                     ELSE getHookFromTrigger(bs, trigger, PullRequestEventSuffix)
         IN HooksOfTriggers(bs, Tail(triggers),
                IF checkHook /\ ~containedInArray(hooks, hook)
                THEN Append(hooks, hook) ELSE hooks)

getWebhooksFromEventListener(listener, bs) ==
    IF ~listener.exists THEN <<>> ELSE HooksOfTriggers(bs, listener.triggers, <<>>)

\* getHooksForRepo: the webhooks whose URL is the same string as gitURL.
RECURSIVE SelectHooks(_, _)
SelectHooks(allHooks, gitURL) ==
    IF allHooks = <<>> THEN <<>>
    ELSE IF Head(allHooks).GitRepositoryURL = gitURL
         THEN <<Head(allHooks)>> \o SelectHooks(Tail(allHooks), gitURL)
         ELSE SelectHooks(Tail(allHooks), gitURL)

getHooksForRepo(listener, bs, gitURL) ==
    SelectHooks(getWebhooksFromEventListener(listener, bs), gitURL)

(***************************************************************************)
(* Monitor triggers.                                                       *)
(***************************************************************************)
\* The provider part of the monitor binding's name, from
\* utils.GetGitProviderAndAPIURL; the URLs of the model are on one provider.
GitProvider == <<"g","i","t","h","u","b">>

\* getMonitorBindingName
getMonitorBindingName(repoURL, monitorTask0) ==
    LET monitorTask == IF monitorTask0 = <<>> THEN webhookextPullTask
                       ELSE monitorTask0
    IN IF monitorTask = webhookextPullTask
       THEN monitorTask \o Dash \o GitProvider \o BindingSuffix
       ELSE monitorTask \o BindingSuffix

\* The URLs compared as strings.
HeaderMatchExact(headers, url) ==
    IF \E i \in 1..Len(headers) : /\ headers[i].Name = "Wext-Repository-Url"
                                   /\ headers[i].Value = url
    THEN "match" ELSE "nomatch"

\* The Wext-Repository-Url headers of a trigger's first interceptor compared
\* with url, in order: "match", "nomatch", or "err" at the first URL that does
\* not parse.
RECURSIVE HeaderMatch(_, _)
RECURSIVE HeaderCompared(_, _, _)

\* Lines 243-250: c is the result of compareGitRepoNames for the first header.
HeaderCompared(c, headers, url) ==
    IF c.status # "ok" THEN c.status
    ELSE IF c.match THEN "match"
    ELSE HeaderMatch(Tail(headers), url)

HeaderMatch(headers, url) ==
    IF headers = <<>> THEN "nomatch"
    ELSE IF Head(headers).Name = "Wext-Repository-Url"
         THEN HeaderCompared(compareGitRepoNames(Head(headers).Value, url),
                             headers, url)
         ELSE HeaderMatch(Tail(headers), url)

NoMonitor == [status |-> "ok", found |-> FALSE, name |-> <<>>]
MonitorPanic == [status |-> "panic", found |-> FALSE, name |-> <<>>]

\* No monitor trigger is ever found.
doesMonitorExistNever(monitorTriggerNamePrefix, webhook, triggers) == NoMonitor

\* doesMonitorExist: the first trigger whose name starts with the prefix and
\* whose repository URL header names the webhook's repository.  status is
\* "panic" when a trigger with the prefix has no interceptor.
RECURSIVE doesMonitorExist(_, _, _)
RECURSIVE MonitorMatched(_, _, _, _)

\* Lines 243-255: m is the result of comparing the first trigger's headers.
MonitorMatched(m, monitorTriggerNamePrefix, webhook, triggers) ==
    CASE m = "match" -> [status |-> "ok", found |-> TRUE, name |-> Head(triggers).Name]
      [] m = "nomatch" -> doesMonitorExist(monitorTriggerNamePrefix, webhook,
                                           Tail(triggers))
      [] m = "err" -> NoMonitor
      [] OTHER -> MonitorPanic

doesMonitorExist(monitorTriggerNamePrefix, webhook, triggers) ==
    IF triggers = <<>> THEN NoMonitor
    ELSE IF HasPrefix(Head(triggers).Name, monitorTriggerNamePrefix)
         THEN IF Head(triggers).Interceptors = <<>>
              THEN MonitorPanic
              ELSE MonitorMatched(
                       HeaderMatch(Head(triggers).Interceptors[1].Header,
                                   webhook.GitRepositoryURL),
                       monitorTriggerNamePrefix, webhook, triggers)
         ELSE doesMonitorExist(monitorTriggerNamePrefix, webhook, Tail(triggers))

\* The values rand.Intn(n) takes when sample values are drawn:
\* 0 .. sample-2 and n-1.
Intn(n, sample) == {k \in (0..(sample - 2)) \cup {n - 1} : 0 <= k /\ k < n}

TriggerNames(triggers) == {triggers[i].Name : i \in 1..Len(triggers)}

\* generateMonitorTriggerName as a relation: the names its loop can return,
\* which are the suggested names that no existing trigger has.
ReturnedNames(prefix, existingTriggers, sample) ==
    {prefix \o Itoa(k) : k \in Intn(RandLimit, sample)}
        \ TriggerNames(existingTriggers)

MonitorTriggerNames(prefix, existingTriggers) ==
    ReturnedNames(prefix, existingTriggers, RandSample)

(***************************************************************************)
(* deleteFromEventListener, lines 998-1054: the scan of the listener's     *)
(* triggers.  acc carries the function's local variables; panic is set     *)
(* when t.Interceptors[0] is read on a trigger without interceptor.        *)
(***************************************************************************)
\* The last binding of the trigger whose Name (not its Ref) has the prefix.
RECURSIVE LastBindingNamed(_, _, _)
LastBindingNamed(bindingRefs, prefix, none) ==
    IF bindingRefs = <<>> THEN none
    ELSE IF HasPrefix(bindingRefs[Len(bindingRefs)].Name, prefix)
         THEN bindingRefs[Len(bindingRefs)].Name
         ELSE LastBindingNamed(SubSeq(bindingRefs, 1, Len(bindingRefs) - 1),
                               prefix, none)

BindingsNamed(bindingRefs, prefix) ==
    {bindingRefs[i].Name : i \in {j \in 1..Len(bindingRefs) :
                                    HasPrefix(bindingRefs[j].Name, prefix)}}

UrlHeaders(t, url) ==
    Cardinality({i \in 1..Len(t.Interceptors[1].Header) :
                    /\ t.Interceptors[1].Header[i].Name = "Wext-Repository-Url"
                    /\ t.Interceptors[1].Header[i].Value = url})

ScanStart ==
    [monitorTrigger |-> ZeroTrigger, actualMonitorBindingName |-> <<>>,
     triggersOnRepo |-> 0, triggersDeleted |-> 0, newTriggers |-> <<>>,
     bindingsToRemove |-> {}, panic |-> FALSE]

\* One iteration of the loop over currentTriggers.
ScanTrigger(t, mon, name, monitorBindingName, webhook, acc) ==
    IF mon.found /\ t.Name = mon.name
    THEN [acc EXCEPT
            !.monitorTrigger = t,
            !.actualMonitorBindingName =
                LastBindingNamed(t.Bindings,
                                 WextPrefix \o monitorBindingName \o Dash, @)]
    ELSE IF t.Interceptors = <<>>
    THEN [acc EXCEPT !.panic = TRUE]
    ELSE LET found == t.Name \in {name \o PushEventSuffix,
                                  name \o PullRequestEventSuffix}
         IN [acc EXCEPT
               !.triggersOnRepo = @ + UrlHeaders(t, webhook.GitRepositoryURL),
               !.triggersDeleted = IF found THEN @ + 1 ELSE @,
               !.bindingsToRemove =
                   IF found
                   THEN @ \cup BindingsNamed(t.Bindings,
                                             WextPrefix \o webhook.Name \o Dash)
                   ELSE @,
               !.newTriggers = IF found THEN @ ELSE Append(@, t)]

RECURSIVE ScanTriggers(_, _, _, _, _, _)
ScanTriggers(triggers, mon, name, monitorBindingName, webhook, acc) ==
    IF triggers = <<>> \/ acc.panic THEN acc
    ELSE ScanTriggers(Tail(triggers), mon, name, monitorBindingName, webhook,
                      ScanTrigger(Head(triggers), mon, name, monitorBindingName,
                                  webhook, acc))

\* The monitor trigger is kept whatever the scan counted.
KeepMonitorAlways(acc) == TRUE

\* Lines 1048-1054: keep the monitor trigger, or give up its binding.
KeepMonitor(acc) == acc.triggersOnRepo > acc.triggersDeleted

\* The bindings the monitor trigger refers to are given up although the
\* trigger is kept.
ScanEndGivingUpMonitorBinding(acc) ==
    IF acc.panic THEN acc
    ELSE IF KeepMonitor(acc)
    THEN [acc EXCEPT !.newTriggers = Append(@, acc.monitorTrigger),
                     !.bindingsToRemove =
                         @ \cup {acc.monitorTrigger.Bindings[i].Ref :
                                    i \in 1..Len(acc.monitorTrigger.Bindings)}]
    ELSE [acc EXCEPT !.bindingsToRemove = @ \cup {acc.actualMonitorBindingName}]

\* Lines 1048-1054 on the result of the scan.
ScanEnd(acc) ==
    IF acc.panic THEN acc
    ELSE IF KeepMonitor(acc)
    THEN [acc EXCEPT !.newTriggers = Append(@, acc.monitorTrigger)]
    ELSE [acc EXCEPT !.bindingsToRemove = @ \cup {acc.actualMonitorBindingName}]

\* Lines 1012-1054, mon being the result of doesMonitorExist.
ScanWith(mon, triggers, name, webhook) ==
    IF mon.status = "panic" THEN [ScanStart EXCEPT !.panic = TRUE]
    ELSE ScanEnd(ScanTriggers(triggers, mon, name,
                              getMonitorBindingName(webhook.GitRepositoryURL,
                                                    webhook.PullTask),
                              webhook, ScanStart))

\* Lines 993-1054 on the triggers that were read.
TriggersAfterDelete(triggers, name, monitorTriggerNamePrefix, webhook) ==
    ScanWith(doesMonitorExist(monitorTriggerNamePrefix, webhook, triggers),
             triggers, name, webhook)

(***************************************************************************)
(* createEventListener and updateEventListener: the triggers they build.   *)
(***************************************************************************)
PushTrigger(webhook, hookExtBinding) ==
    newTrigger(webhook.Name \o Dash \o webhook.Namespace \o PushEventSuffix,
               webhook.Pipeline \o PushBindingSuffix,
               webhook.Pipeline \o TemplateSuffix,
               webhook.GitRepositoryURL, PushEvents, AccessTokenRef,
               hookExtBinding)

PullRequestTrigger(webhook, hookExtBinding) ==
    WithActions(
        newTrigger(webhook.Name \o Dash \o webhook.Namespace \o PullRequestEventSuffix,
                   webhook.Pipeline \o PullRequestBindingSuffix,
                   webhook.Pipeline \o TemplateSuffix,
                   webhook.GitRepositoryURL, PullRequestEvents, AccessTokenRef,
                   hookExtBinding))

MonitorTrigger(webhook, monitorTriggerName, monitorExtBinding) ==
    WithActions(
        newTrigger(monitorTriggerName,
                   getMonitorBindingName(webhook.GitRepositoryURL, webhook.PullTask),
                   webhook.PullTask \o TemplateSuffix,
                   webhook.GitRepositoryURL, PullRequestEvents, AccessTokenRef,
                   monitorExtBinding))

\* Lines 177-178: the listener's triggers with the two new ones appended.
AppendedTriggers(triggers, webhook, hookExtBinding) ==
    triggers \o << PushTrigger(webhook, hookExtBinding),
                   PullRequestTrigger(webhook, hookExtBinding) >>

\* The listener is created without a monitor trigger.
CreatedTriggerListsNoMonitor(webhook, monitorTriggerNamePrefix, hookExtBinding, monitorExtBinding) ==
    {<< PushTrigger(webhook, hookExtBinding),
        PullRequestTrigger(webhook, hookExtBinding) >>}

\* Lines 107-117: the trigger lists createEventListener can write, one for
\* each name generateMonitorTriggerName can return.
CreatedTriggerLists(webhook, monitorTriggerNamePrefix, hookExtBinding, monitorExtBinding) ==
    {<< PushTrigger(webhook, hookExtBinding),
        PullRequestTrigger(webhook, hookExtBinding),
        MonitorTrigger(webhook, n, monitorExtBinding) >> :
     n \in MonitorTriggerNames(monitorTriggerNamePrefix, <<>>)}

\* A monitor trigger is appended whether or not one was found.
UpdatedTriggerListsAlways(triggers, webhook, monitorTriggerNamePrefix, existingMonitorFound, hookExtBinding, monitorExtBinding) ==
    LET appended == AppendedTriggers(triggers, webhook, hookExtBinding)
    IN {Append(appended, MonitorTrigger(webhook, n, monitorExtBinding)) :
        n \in MonitorTriggerNames(monitorTriggerNamePrefix, appended)}

\* Lines 177-192: the trigger lists updateEventListener can write; a monitor
\* trigger is appended when doesMonitorExist found none.
UpdatedTriggerLists(triggers, webhook, monitorTriggerNamePrefix, existingMonitorFound, hookExtBinding, monitorExtBinding) ==
    LET appended == AppendedTriggers(triggers, webhook, hookExtBinding)
    IN IF existingMonitorFound THEN {appended}
       ELSE {Append(appended, MonitorTrigger(webhook, n, monitorExtBinding)) :
             n \in MonitorTriggerNames(monitorTriggerNamePrefix, appended)}

\* The name the binding store gives a binding created with
\* GenerateName "wext-" + name + "-": one that no binding has.
RECURSIVE FreshSuffix(_, _, _)
FreshSuffix(bs, base, k) ==
    IF \E b \in bs : b.Name = base \o Itoa(k) THEN FreshSuffix(bs, base, k + 1)
    ELSE base \o Itoa(k)

GeneratedBindingName(bs, name) == FreshSuffix(bs, WextPrefix \o name \o Dash, 0)

(***************************************************************************)
(* The requests of the model.                                              *)
(***************************************************************************)
\* https://g/O/r and https://g/o/r are one repository; https://g/o/s is another.
UrlUpper == HttpsScheme \o <<"g","/","O","/","r">>
UrlLower == HttpsScheme \o <<"g","/","o","/","r">>
UrlOther == HttpsScheme \o <<"g","/","o","/","s">>

\* The bodies of the create requests.
Webhooks ==
    { NewWebhook(<<"a","-","b">>, <<"c">>, <<"p">>, UrlUpper, <<>>),
      NewWebhook(<<"a">>, <<"b","-","c">>, <<"q">>, UrlUpper, <<>>),
      NewWebhook(<<"b">>, <<"c">>, <<"q">>, UrlUpper, <<>>),
      NewWebhook(<<"b">>, <<"c">>, <<"p">>, UrlLower, <<>>),
      NewWebhook(<<"a","-","b">>, <<"c">>, <<"p">>, UrlOther, <<>>),
      NewWebhook(<<"d">>, <<"c">>, <<"q">>, UrlLower, <<"t">>) }

\* A name of MaxNameLen + 1 characters.
LongName == [i \in 1..(MaxNameLen + 1) |-> "n"]

\* The bodies of the create requests that lines 544-617 refuse for their own
\* content: no namespace, a URL without scheme, a name that is too long, a
\* URL of three pieces, a pipeline without template.
InvalidWebhooks ==
    { NewWebhook(<<"e">>, <<>>, <<"p">>, UrlOther, <<>>),
      NewWebhook(<<"e">>, <<"c">>, <<"p">>, <<"g","/","o","/","s">>, <<>>),
      NewWebhook(LongName, <<"c">>, <<"p">>, UrlOther, <<>>),
      NewWebhook(<<"e">>, <<"c">>, <<"p">>, HttpsScheme \o <<"g">>, <<>>),
      NewWebhook(<<"e">>, <<"c">>, <<"z">>, UrlOther, <<>>) }

\* The name, namespace and repository parameters of the delete requests.
DeleteRequests ==
    {NewWebhook(w.Name, w.Namespace, <<>>, w.GitRepositoryURL, <<>>) : w \in Webhooks}

Procs == {1, 2}

(***************************************************************************)
(* State.                                                                  *)
(***************************************************************************)
VARIABLES
    el,         \* the event listener tekton-webhooks-eventlistener
    bindings,   \* the trigger bindings this service created
    ingress,    \* whether the ingress (or route) el-... exists
    gitHooks,   \* the webhooks registered with the Git provider
    lock,       \* modifyingEventListenerLock: 0 when free, else its holder
    procs,      \* the request each goroutine serves and its local variables
    nreq,       \* requests received so far
    faults,     \* collaborator calls that failed so far
    registered, \* history: the webhooks of the create requests answered 201
    removed,    \* history: the delete requests answered 204 or 500
    overlap,    \* history: the second request came while the first was served,
                \* and no request came since
    gen,        \* one call of generateMonitorTriggerName, for GenSpec
    call        \* one call of getGitValues and compareGitRepoNames, for UrlSpec

vars == <<el, bindings, ingress, gitHooks, lock, procs, nreq, faults,
          registered, removed, overlap, gen, call>>

\* No call of generateMonitorTriggerName is followed step by step.
GenOff == [pc |-> "off", prefix |-> <<>>, existingTriggers |-> <<>>,
           suggestedName |-> <<>>, i |-> 0]

\* No call of getGitValues or compareGitRepoNames is followed.
CallOff == [pc |-> "off", url1 |-> <<>>, url2 |-> <<>>,
            values |-> GitValuesErr, same |-> [status |-> "err", match |-> FALSE]]

\* A goroutine that serves no request.  status is the status written to the
\* response: 0 before any, -1 when the handler panicked.  failed are the
\* calls of a failed createWebhook that returned an error, reported those of
\* them whose error is in the message written to the response.
IdleProc ==
    [pc |-> "idle", kind |-> "none", request |-> NoWebhook, status |-> 0,
     webhook |-> NoWebhook, hooks |-> <<>>, listener |-> NoEventListener,
     prefix |-> <<>>, i |-> 0,
     dfName |-> <<>>, dfWebhook |-> NoWebhook, dfListener |-> NoEventListener,
     newTriggers |-> <<>>, bindingsToRemove |-> {},
     failed |-> {}, reported |-> {}]

Init ==
    /\ el = NoEventListener
    /\ bindings = {}
    /\ ingress = FALSE
    /\ gitHooks = {}
    /\ lock = 0
    /\ procs = [p \in Procs |-> IdleProc]
    /\ nreq = 0
    /\ faults = 0
    /\ registered = {}
    /\ removed = {}
    /\ overlap = FALSE
    /\ gen = GenOff
    /\ call = CallOff

\* The sets of calls, among calls, that fail in one step.
FaultSets(calls) ==
    {f \in SUBSET calls : f = {} \/ Cardinality(f) <= MaxFaults - faults}

\* What a step of a handler leaves behind: the stores, the goroutine's record
\* and the collaborator calls the step made.
Res(pr, calls) ==
    [el |-> el, bindings |-> bindings, ingress |-> ingress, gitHooks |-> gitHooks,
     proc |-> pr, calls |-> calls]

\* The handler has written status (the first status written stands) and is
\* about to return.
Done(pr, status) ==
    [IdleProc EXCEPT !.pc = "done", !.kind = pr.kind, !.request = pr.request,
                     !.webhook = pr.webhook,
                     !.status = IF pr.status # 0 THEN pr.status ELSE status]

\* createWebhook answers 500 with a message made of the errors of reported,
\* after the calls of failed returned an error.
Failed(pr, failed, reported) ==
    [Done(pr, 500) EXCEPT !.failed = failed, !.reported = reported]

Apply(p, r, f) ==
    /\ f \subseteq r.calls
    /\ el' = r.el
    /\ bindings' = r.bindings
    /\ ingress' = r.ingress
    /\ gitHooks' = r.gitHooks
    /\ procs' = [procs EXCEPT ![p] = r.proc]
    /\ faults' = faults + Cardinality(f)
    /\ UNCHANGED <<lock, nreq, registered, removed, overlap, gen, call>>

(***************************************************************************)
(* The lock.                                                               *)
(***************************************************************************)
\* A request arrives and its handler is about to call Lock.  The goroutines
\* are alike: the request is served by the first that is free.
Receive(p, kind) ==
    /\ procs[p].pc = "idle"
    /\ \A q \in Procs : q < p => procs[q].pc # "idle"
    /\ nreq < MaxRequests
    /\ nreq' = nreq + 1
    /\ procs' = [procs EXCEPT ![p] = [IdleProc EXCEPT !.pc = "lock", !.kind = kind]]
    /\ overlap' = (nreq = 1 /\ \E q \in Procs \ {p} : procs[q].pc # "idle")
    /\ UNCHANGED <<el, bindings, ingress, gitHooks, lock, faults, registered,
                   removed, gen, call>>

\* Lock returns at once, whoever holds the mutex.
LockAlways == TRUE

\* Lock returns only when no goroutine holds the mutex.
LockFree == lock = 0

Lock(p) ==
    /\ procs[p].pc = "lock"
    /\ LockFree
    /\ lock' = p
    /\ procs' = [procs EXCEPT ![p].pc = IF procs[p].kind = "create" THEN "cwRead"
                                        ELSE "dwRead"]
    /\ UNCHANGED <<el, bindings, ingress, gitHooks, nreq, faults, registered,
                   removed, overlap, gen, call>>

\* The handler returns and leaves the mutex as it is.
UnlockSkipped(p) == lock

\* defer Unlock, lines 525 and 801: the mutex after goroutine p's handler
\* returned.
Unlock(p) == 0

\* The handler returns and its deferred Unlock runs (lines 525 and 801).
Return(p) ==
    /\ procs[p].pc = "done"
    /\ lock' = Unlock(p)
    /\ procs' = [procs EXCEPT ![p] = IdleProc]
    /\ registered' = IF procs[p].kind = "create" /\ procs[p].status = 201
                     THEN registered \cup {procs[p].webhook} ELSE registered
    /\ removed' = IF procs[p].kind = "delete" /\ procs[p].status \in {204, 500}
                  THEN removed \cup {procs[p].request} ELSE removed
    /\ UNCHANGED <<el, bindings, ingress, gitHooks, nreq, faults, overlap, gen,
                   call>>


(***************************************************************************)
(* deleteFromEventListener, called by deleteWebhook and, to take back a    *)
(* registration, by createWebhook.                                         *)
(***************************************************************************)
\* The matching webhooks of the delete request after position i.
NextMatch(pr, i) ==
    {j \in (i + 1)..Len(pr.hooks) :
        /\ pr.hooks[j].Name = pr.request.Name
        /\ pr.hooks[j].Namespace = pr.request.Namespace}

Min(S) == CHOOSE m \in S : \A n \in S : m <= n

\* deleteWebhook's loop, lines 856-885, from the webhook after position i to
\* the next one that matches, or to the end of the handler.
DeleteLoop(pr, i) ==
    IF NextMatch(pr, i) = {}
    THEN Done(pr, 404)
    ELSE LET j == Min(NextMatch(pr, i))
         IN IF Len(pr.hooks) = 1
            THEN [pr EXCEPT !.pc = "dwRemove", !.i = j]
            ELSE [pr EXCEPT !.pc = "dfGet", !.i = j,
                            !.dfName = pr.request.Name \o Dash \o pr.request.Namespace,
                            !.dfWebhook = pr.hooks[j]]

\* deleteFromEventListener returns to its caller: lines 704-711 of
\* createWebhook, lines 875-883 of deleteWebhook.
DfReturn(pr, err) ==
    IF pr.kind = "create"
    THEN Failed(pr, IF err THEN {"add", "deleteFromEventListener"} ELSE {"add"},
                    IF err THEN {"add", "deleteFromEventListener"} ELSE {"add"})
    ELSE IF err THEN Done(pr, 500)
    ELSE DeleteLoop([pr EXCEPT !.status = IF @ = 0 THEN 204 ELSE @], pr.i)

\* Lines 986-1054: the listener is read and the new trigger list computed.
DfScanned(pr, acc) ==
    IF acc.panic THEN Res(Done(pr, -1), {"get"})
    ELSE Res([pr EXCEPT !.pc = "dfWrite", !.dfListener = el,
                        !.newTriggers = acc.newTriggers,
                        !.bindingsToRemove = acc.bindingsToRemove],
             {"get"})

DfGetResult(pr, f) ==
    IF "get" \in f \/ ~el.exists
    THEN Res(DfReturn(pr, TRUE), {"get"})
    ELSE DfScanned(pr, TriggersAfterDelete(el.triggers, pr.dfName, pr.prefix,
                                           pr.dfWebhook))

DfGet(p) ==
    /\ procs[p].pc = "dfGet"
    /\ \E f \in FaultSets({"get"}) : Apply(p, DfGetResult(procs[p], f), f)

\* The bindings are deleted whether or not the listener was written.
DfWriteResultIgnoringError(pr, f) ==
    IF pr.newTriggers = <<>>
    THEN IF "delete" \in f \/ ~el.exists
         THEN Res([pr EXCEPT !.pc = "dfBindings"], {"delete"})
         ELSE IF "ingress" \in f \/ ~ingress
         THEN [Res([pr EXCEPT !.pc = "dfBindings"], {"delete", "ingress"})
                 EXCEPT !.el = NoEventListener]
         ELSE [Res([pr EXCEPT !.pc = "dfBindings"], {"delete", "ingress"})
                 EXCEPT !.el = NoEventListener, !.ingress = FALSE]
    ELSE IF "update" \in f \/ ~el.exists
         THEN Res([pr EXCEPT !.pc = "dfBindings"], {"update"})
         ELSE [Res([pr EXCEPT !.pc = "dfBindings"], {"update"})
                 EXCEPT !.el = [exists |-> TRUE, triggers |-> pr.newTriggers]]

\* The listener is updated, also to an empty trigger list.
DfWriteResultAlwaysUpdate(pr, f) ==
    IF "update" \in f \/ ~el.exists
    THEN Res(DfReturn(pr, TRUE), {"update"})
    ELSE [Res([pr EXCEPT !.pc = "dfBindings"], {"update"})
            EXCEPT !.el = [exists |-> TRUE, triggers |-> pr.newTriggers]]

\* Lines 1056-1087: the listener is deleted, with its ingress, or updated.
DfWriteResult(pr, f) ==
    IF pr.newTriggers = <<>>
    THEN IF "delete" \in f \/ ~el.exists
         THEN Res(DfReturn(pr, TRUE), {"delete"})
         ELSE IF "ingress" \in f \/ ~ingress
         THEN [Res(DfReturn(pr, TRUE), {"delete", "ingress"})
                 EXCEPT !.el = NoEventListener]
         ELSE [Res([pr EXCEPT !.pc = "dfBindings"], {"delete", "ingress"})
                 EXCEPT !.el = NoEventListener, !.ingress = FALSE]
    ELSE IF "update" \in f \/ ~el.exists
         THEN Res(DfReturn(pr, TRUE), {"update"})
         ELSE [Res([pr EXCEPT !.pc = "dfBindings"], {"update"})
                 EXCEPT !.el = [exists |-> TRUE, triggers |-> pr.newTriggers]]

DfWrite(p) ==
    /\ procs[p].pc = "dfWrite"
    /\ \E f \in FaultSets({"delete", "ingress", "update"}) :
          Apply(p, DfWriteResult(procs[p], f), f)

\* TriggerBindings(ns).Delete(name) fails for the empty name and for a name
\* no binding has.
BindingNames(bs) == {b.Name : b \in bs}
DeleteFails(bs, name, f) == name \in f \/ name = <<>> \/ name \notin BindingNames(bs)

\* Lines 1089-1097: the bindings are deleted in the map's order, and the
\* error of the last Delete is returned (nil when the map is empty).
DfBindingsResult(pr, f, last) ==
    LET deleted == {n \in pr.bindingsToRemove : ~DeleteFails(bindings, n, f)}
        err == pr.bindingsToRemove # {} /\ DeleteFails(bindings, last, f)
    IN [Res(DfReturn(pr, err), pr.bindingsToRemove)
          EXCEPT !.bindings = {b \in bindings : b.Name \notin deleted}]

DfBindings(p) ==
    /\ procs[p].pc = "dfBindings"
    /\ \E f \in FaultSets(procs[p].bindingsToRemove \cap BindingNames(bindings)) :
       \E last \in procs[p].bindingsToRemove \cup {<<>>} :
          /\ last \in procs[p].bindingsToRemove \/ procs[p].bindingsToRemove = {}
          /\ Apply(p, DfBindingsResult(procs[p], f, last), f)

(***************************************************************************)
(* createWebhook                                                           *)
(***************************************************************************)
\* Lines 537-542: the URL loses a trailing ".git", an empty pull task
\* becomes monitor-task.
Sanitized(w) ==
    [w EXCEPT !.GitRepositoryURL = TrimSuffix(@, DotGit),
              !.PullTask = IF @ = <<>> THEN webhookextPullTask ELSE @]

\* Lines 544-583: the request is refused for its own content.
Invalid(webhook) ==
    \/ webhook.Name # <<>> /\ Len(webhook.Name) > MaxNameLen
    \/ webhook.Namespace = <<>>
    \/ ~HasPrefix(webhook.GitRepositoryURL, HttpWord)
    \/ Count(webhook.GitRepositoryURL, "/") + 1 < MinPieces

\* Lines 586-606: a webhook of the repository has the name, or the pipeline
\* and namespace, or another pull task.
Conflicts(hooks, webhook) ==
    \E i \in 1..Len(hooks) :
        \/ hooks[i].Name = webhook.Name
        \/ hooks[i].Pipeline = webhook.Pipeline /\ hooks[i].Namespace = webhook.Namespace
        \/ hooks[i].PullTask # webhook.PullTask

\* Lines 530-635: the request w is read and checked, the webhooks of its
\* repository and the listener are read.  A failed read of the webhooks
\* leaves hooks empty, and the handler goes on.
CreateReadResult(pr0, w, f) ==
    LET webhook == Sanitized(w)
        pr == [pr0 EXCEPT !.request = w, !.webhook = webhook]
        hooks == IF "hooks" \in f THEN <<>>
                 ELSE getHooksForRepo(el, bindings, webhook.GitRepositoryURL)
        values == getGitValues(webhook.GitRepositoryURL)
    IN IF Invalid(webhook) THEN Res(Done(pr, 400), {})
       ELSE IF Conflicts(hooks, webhook) THEN Res(Done(pr, 400), {"hooks"})
       ELSE IF webhook.Pipeline \notin InstalledPipelines
       THEN Res(Done(pr, 400), {"hooks"})
       ELSE IF "get" \in f THEN Res(Done(pr, 500), {"hooks", "get"})
       ELSE IF values.status = "err" THEN Res(Done(pr, 500), {"hooks", "get"})
       ELSE IF values.status = "panic" THEN Res(Done(pr, -1), {"hooks", "get"})
       ELSE Res([pr EXCEPT !.pc = "cwWrite", !.hooks = hooks,
                           !.listener = el,
                           !.prefix = values.owner \o Dot \o values.repo \o Dash],
                {"hooks", "get"})

CreateRead(p) ==
    /\ procs[p].pc = "cwRead"
    /\ \E w \in Webhooks \cup InvalidWebhooks : \E f \in FaultSets({"hooks", "get"}) :
          Apply(p, CreateReadResult(procs[p], w, f), f)

\* After the listener is written, lines 655-718: the ingress is made for a
\* new listener, the provider's webhook for the repository's first webhook.
AfterWrite(pr, created) ==
    IF created THEN [pr EXCEPT !.pc = "cwIngress"]
    ELSE IF Len(pr.hooks) = 0 THEN [pr EXCEPT !.pc = "cwAddWebhook"]
    ELSE Done(pr, 201)

\* Lines 70-75 and 138-149: whether a monitor exists, and the bindings that
\* createBindings creates when both of its Create calls succeed.
PlanWith(pr, mon) ==
    LET hookExtBinding == GeneratedBindingName(bindings, pr.webhook.Name)
        withHook == bindings \cup
                    {[Name |-> hookExtBinding, Params |-> HookParams(pr.webhook)]}
        monitorExtBinding ==
            IF mon.found THEN <<>>
            ELSE GeneratedBindingName(withHook,
                    getMonitorBindingName(pr.webhook.GitRepositoryURL,
                                          pr.webhook.PullTask))
    IN [update |-> pr.listener.exists, mon |-> mon,
        createMonitorBinding |-> ~mon.found,
        hookExtBinding |-> hookExtBinding,
        monitorExtBinding |-> monitorExtBinding,
        withHook |-> withHook,
        withBoth |-> IF mon.found THEN withHook
                     ELSE withHook \cup {[Name |-> monitorExtBinding, Params |-> <<>>]}]

BindingPlan(pr) ==
    PlanWith(pr, IF pr.listener.exists
                 THEN doesMonitorExist(pr.prefix, pr.webhook, pr.listener.triggers)
                 ELSE NoMonitor)

\* The trigger lists createEventListener (line 117) or updateEventListener
\* (lines 177-192) can hand to the store.
TriggerLists(pr, plan) ==
    IF plan.update
    THEN UpdatedTriggerLists(pr.listener.triggers, pr.webhook, pr.prefix,
                             plan.mon.found, plan.hookExtBinding,
                             plan.monitorExtBinding)
    ELSE CreatedTriggerLists(pr.webhook, pr.prefix, plan.hookExtBinding,
                             plan.monitorExtBinding)

\* createBindings does not return both bindings: doesMonitorExist panicked,
\* or a Create failed.
BindingsFail(plan, f) ==
    \/ plan.mon.status = "panic"
    \/ "hook" \in f
    \/ plan.createMonitorBinding /\ "monitor" \in f

\* Lines 75-84 and 149-158: a binding is not created; the hook binding, if
\* it was created, is deleted again, a Delete whose error is dropped.
BindingsFailResult(pr, plan, f) ==
    IF plan.mon.status = "panic" THEN Res(Done(pr, -1), {})
    ELSE IF "hook" \in f THEN Res(Failed(pr, {"hook"}, {"hook"}), {"hook"})
    ELSE [Res(Failed(pr, {"monitor"} \cup (f \cap {"unhook"}), {"monitor"}),
              {"monitor", "unhook"})
            EXCEPT !.bindings = IF "unhook" \in f THEN plan.withHook ELSE bindings]

\* http.StatusBadRequest
ListenerWriteStatusBadRequest == 400

\* Lines 642 and 651: http.StatusInternalServerError, the status of a
\* request whose listener could not be written.
ListenerWriteStatus == 500

\* Lines 129 and 194: the listener is created with, or updated to, triggers.
\* Create fails on a listener that exists, Update on one that does not.
ListenerWriteResult(pr, plan, f, triggers) ==
    IF "write" \in f \/ el.exists # plan.update
    THEN [Res(Done(pr, ListenerWriteStatus), {"write"})
            EXCEPT !.bindings = plan.withBoth]
    ELSE [Res(AfterWrite(pr, ~plan.update), {"write"})
            EXCEPT !.bindings = plan.withBoth,
                   !.el = [exists |-> TRUE, triggers |-> triggers]]

\* createEventListener or updateEventListener with the bindings of plan.
WriteWith(p, plan, f) ==
    IF BindingsFail(plan, f)
    THEN Apply(p, BindingsFailResult(procs[p], plan, f), f)
    ELSE \E triggers \in TriggerLists(procs[p], plan) :
            Apply(p, ListenerWriteResult(procs[p], plan, f, triggers), f)

\* createEventListener or updateEventListener, called at lines 637-653.
CreateWrite(p) ==
    /\ procs[p].pc = "cwWrite"
    /\ \E f \in FaultSets({"hook", "monitor", "unhook", "write"}) :
          WriteWith(p, BindingPlan(procs[p]), f)

\* The listener is left in place when its ingress cannot be created.
CreateIngressResultKeepingListener(pr, f) ==
    IF "ingress" \in f \/ ingress
    THEN Res(Done(pr, 500), {"ingress", "delete"})
    ELSE [Res(IF Len(pr.hooks) = 0 THEN [pr EXCEPT !.pc = "cwAddWebhook"]
              ELSE Done(pr, 201), {"ingress"})
            EXCEPT !.ingress = TRUE]

\* Lines 655-685: the ingress of a new listener is created; when that fails
\* the listener is deleted again.  Create fails on an ingress that exists.
CreateIngressResult(pr, f) ==
    IF "ingress" \in f \/ ingress
    THEN [Res(Failed(pr, {"ingress"} \cup (f \cap {"delete"}),
                         {"ingress"} \cup (f \cap {"delete"})),
              {"ingress", "delete"})
            EXCEPT !.el = IF "delete" \in f THEN el ELSE NoEventListener]
    ELSE [Res(IF Len(pr.hooks) = 0 THEN [pr EXCEPT !.pc = "cwAddWebhook"]
              ELSE Done(pr, 201), {"ingress"})
            EXCEPT !.ingress = TRUE]

CreateIngress(p) ==
    /\ procs[p].pc = "cwIngress"
    /\ \E f \in FaultSets({"ingress", "delete"}) :
          Apply(p, CreateIngressResult(procs[p], f), f)

\* The provider's webhook of a repository, as AddWebhook and RemoveWebhook
\* are given it.
GitHook(url) == [owner |-> getGitValues(url).owner, repo |-> getGitValues(url).repo]

\* Lines 689-718: the provider's webhook is added; when that fails the
\* registration is taken back with deleteFromEventListener.
CreateAddWebhookResult(pr, f) ==
    IF "add" \in f
    THEN Res([pr EXCEPT !.pc = "dfGet",
                        !.dfName = pr.webhook.Name \o Dash \o pr.webhook.Namespace,
                        !.dfWebhook = pr.webhook], {"add"})
    ELSE [Res(Done(pr, 201), {"add"})
            EXCEPT !.gitHooks = @ \cup {GitHook(pr.webhook.GitRepositoryURL)}]

CreateAddWebhook(p) ==
    /\ procs[p].pc = "cwAddWebhook"
    /\ \E f \in FaultSets({"add"}) : Apply(p, CreateAddWebhookResult(procs[p], f), f)

(***************************************************************************)
(* deleteWebhook                                                           *)
(***************************************************************************)
\* Lines 803-853: the parameters are read and the webhooks of the repository
\* looked up; the loop of lines 856-885 starts.
DeleteReadResult(pr0, d, f) ==
    LET pr == [pr0 EXCEPT !.request = d]
        hooks == getHooksForRepo(el, bindings, d.GitRepositoryURL)
        values == getGitValues(d.GitRepositoryURL)
    IN IF d.Namespace = <<>> \/ d.GitRepositoryURL = <<>> THEN Res(Done(pr, 400), {})
       ELSE IF "hooks" \in f THEN Res(Done(pr, 404), {"hooks"})
       ELSE IF Len(hooks) < 1 THEN Res(Done(pr, 400), {"hooks"})
       ELSE IF values.status = "err" THEN Res(Done(pr, 500), {"hooks"})
       ELSE IF values.status = "panic" THEN Res(Done(pr, -1), {"hooks"})
       ELSE Res(DeleteLoop([pr EXCEPT !.hooks = hooks,
                                      !.prefix = values.owner \o Dot \o values.repo \o Dash],
                           0),
                {"hooks"})

DeleteRead(p) ==
    /\ procs[p].pc = "dwRead"
    /\ \E d \in DeleteRequests : \E f \in FaultSets({"hooks"}) :
          Apply(p, DeleteReadResult(procs[p], d, f), f)

\* The handler goes on when RemoveWebhook fails.
DeleteRemoveResultIgnoringError(pr, f) ==
    IF "remove" \in f
    THEN Res([pr EXCEPT !.pc = "dfGet",
                        !.dfName = pr.request.Name \o Dash \o pr.request.Namespace,
                        !.dfWebhook = pr.hooks[pr.i]], {"remove"})
    ELSE [Res([pr EXCEPT !.pc = "dfGet",
                         !.dfName = pr.request.Name \o Dash \o pr.request.Namespace,
                         !.dfWebhook = pr.hooks[pr.i]], {"remove"})
            EXCEPT !.gitHooks = @ \ {GitHook(pr.request.GitRepositoryURL)}]

\* Lines 859-870: the repository's only webhook is deleted, so the
\* provider's webhook is removed first.
DeleteRemoveResult(pr, f) ==
    IF "remove" \in f THEN Res(Done(pr, 500), {"remove"})
    ELSE [Res([pr EXCEPT !.pc = "dfGet",
                         !.dfName = pr.request.Name \o Dash \o pr.request.Namespace,
                         !.dfWebhook = pr.hooks[pr.i]], {"remove"})
            EXCEPT !.gitHooks = @ \ {GitHook(pr.request.GitRepositoryURL)}]

DeleteRemove(p) ==
    /\ procs[p].pc = "dwRemove"
    /\ \E f \in FaultSets({"remove"}) : Apply(p, DeleteRemoveResult(procs[p], f), f)

(***************************************************************************)
(* The server: requests arrive at any time, each in a goroutine of its own.*)
(***************************************************************************)
Next ==
    \E p \in Procs :
        \/ Receive(p, "create")
        \/ Receive(p, "delete")
        \/ Lock(p)
        \/ Return(p)
        \/ CreateRead(p)
        \/ CreateWrite(p)
        \/ CreateIngress(p)
        \/ CreateAddWebhook(p)
        \/ DeleteRead(p)
        \/ DeleteRemove(p)
        \/ DfGet(p)
        \/ DfWrite(p)
        \/ DfBindings(p)

Spec == Init /\ [][Next]_vars

(***************************************************************************)
(* generateMonitorTriggerName, lines 212-230, step by step: the name is    *)
(* suggested, compared with the existing triggers in order, and suggested  *)
(* again, the comparison starting over, when a trigger has it.             *)
(***************************************************************************)
\* The prefixes and the trigger names of the calls that are followed.
GenPrefixes == {<<"o",".","r","-">>, <<"o",".","s","-">>}

GenTriggerNames(prefix) ==
    {prefix \o Itoa(0), prefix \o Itoa(RandLimit - 1),
     <<"a","-","b">> \o PushEventSuffix}

\* The lists of at most MaxExisting triggers with these names.
GenTriggerLists(prefix) ==
    UNION {[1..n -> {[ZeroTrigger EXCEPT !.Name = name] :
                        name \in GenTriggerNames(prefix)}] : n \in 0..MaxExisting}

GenInit ==
    /\ el = NoEventListener
    /\ bindings = {}
    /\ ingress = FALSE
    /\ gitHooks = {}
    /\ lock = 0
    /\ procs = [p \in Procs |-> IdleProc]
    /\ nreq = 0
    /\ faults = 0
    /\ registered = {}
    /\ removed = {}
    /\ overlap = FALSE
    /\ call = CallOff
    /\ \E prefix \in GenPrefixes : \E existingTriggers \in GenTriggerLists(prefix) :
          gen = [GenOff EXCEPT !.pc = "start", !.prefix = prefix,
                               !.existingTriggers = existingTriggers]

\* Lines 214 and 221: prefix + strconv.Itoa(rand.Intn(10000)).
SuggestedNames(prefix) == {prefix \o Itoa(k) : k \in Intn(RandLimit, GenRandSample)}

\* Line 219: t.Name == suggestedName.
NameNeverTaken(t, suggestedName) == FALSE
NameTaken(t, suggestedName) == t.Name = suggestedName

\* Line 214.
GenSuggest ==
    /\ gen.pc = "start"
    /\ \E name \in SuggestedNames(gen.prefix) :
          gen' = [gen EXCEPT !.pc = "scan", !.suggestedName = name, !.i = 1]
    /\ UNCHANGED <<el, bindings, ingress, gitHooks, lock, procs, nreq, faults,
                   registered, removed, overlap, call>>

\* Lines 218-224: one trigger is compared; a trigger with the suggested name
\* ends the scan, which starts over with a new suggestion.
GenCompare ==
    /\ gen.pc = "scan"
    /\ gen.i <= Len(gen.existingTriggers)
    /\ IF NameTaken(gen.existingTriggers[gen.i], gen.suggestedName)
       THEN \E name \in SuggestedNames(gen.prefix) :
               gen' = [gen EXCEPT !.suggestedName = name, !.i = 1]
       ELSE gen' = [gen EXCEPT !.i = @ + 1]
    /\ UNCHANGED <<el, bindings, ingress, gitHooks, lock, procs, nreq, faults,
                   registered, removed, overlap, call>>

\* Lines 225-229: no trigger has the suggested name, which is returned.
GenReturn ==
    /\ gen.pc = "scan"
    /\ gen.i > Len(gen.existingTriggers)
    /\ gen' = [gen EXCEPT !.pc = "returned"]
    /\ UNCHANGED <<el, bindings, ingress, gitHooks, lock, procs, nreq, faults,
                   registered, removed, overlap, call>>

GenNext == GenSuggest \/ GenCompare \/ GenReturn

GenSpec == GenInit /\ [][GenNext]_vars

\* The handlers use generateMonitorTriggerName as the relation
\* ReturnedNames: every name the loop returns is in it.
GenReturnsReturnedName ==
    gen.pc = "returned" =>
        gen.suggestedName \in ReturnedNames(gen.prefix, gen.existingTriggers,
                                            GenRandSample)

(***************************************************************************)
(* getGitValues, lines 491-520, and compareGitRepoNames, lines 197-210, on *)
(* their own: url1 is parsed, then url1 and url2 are compared.             *)
(***************************************************************************)
\* What a URL string starts with: a scheme the function knows, none, another.
UrlSchemes == {HttpsScheme, HttpScheme, <<>>, <<"f","t","p",":","/","/">>}

\* What follows: a host with two path segments, in two spellings, with a
\* trailing slash, with .git, with an empty or a missing segment, with a
\* third segment, and nothing.
UrlRests ==
    { <<"g","/","o","/","r">>, <<"g","/","O","/","r">>,
      <<"g","/","o","/","r","/">>, <<"g","/","o","/","r">> \o DotGit,
      <<"g","/","o","/">>, <<"g","/","o">>, <<"g","/","/","r">>,
      <<"g","/","o","/","r","/","x">>, <<"g">>, <<>> }

UrlInputs == {scheme \o rest : scheme \in UrlSchemes, rest \in UrlRests}

UrlInit ==
    /\ el = NoEventListener
    /\ bindings = {}
    /\ ingress = FALSE
    /\ gitHooks = {}
    /\ lock = 0
    /\ procs = [p \in Procs |-> IdleProc]
    /\ nreq = 0
    /\ faults = 0
    /\ registered = {}
    /\ removed = {}
    /\ overlap = FALSE
    /\ gen = GenOff
    /\ \E url1 \in UrlInputs : \E url2 \in {url1, UrlLower, UrlUpper} :
          call = [CallOff EXCEPT !.pc = "start", !.url1 = url1, !.url2 = url2]

\* getGitValues(url1)
UrlParse ==
    /\ call.pc = "start"
    /\ call' = [call EXCEPT !.pc = "parsed", !.values = getGitValues(call.url1)]
    /\ UNCHANGED <<el, bindings, ingress, gitHooks, lock, procs, nreq, faults,
                   registered, removed, overlap, gen>>

\* compareGitRepoNames(url1, url2)
UrlCompare ==
    /\ call.pc = "parsed"
    /\ call' = [call EXCEPT !.pc = "compared",
                            !.same = compareGitRepoNames(call.url1, call.url2)]
    /\ UNCHANGED <<el, bindings, ingress, gitHooks, lock, procs, nreq, faults,
                   registered, removed, overlap, gen>>

UrlNext == UrlParse \/ UrlCompare

UrlSpec == UrlInit /\ [][UrlNext]_vars

(***************************************************************************)
(* The loop of lines 1089-1096 on its own: deleteFromEventListener, called *)
(* by deleteWebhook, has written the listener and is about to delete the   *)
(* bindings of the map bindingsToRemove, whatever names the map holds.     *)
(***************************************************************************)
\* The names a trigger's bindings can bear: two hook bindings, a monitor
\* binding, and no name.
LoopNames ==
    { WextPrefix \o <<"b">> \o Dash \o Itoa(0),
      WextPrefix \o <<"b">> \o Dash \o Itoa(1),
      WextPrefix \o getMonitorBindingName(UrlLower, <<>>) \o Dash \o Itoa(0),
      <<>> }

LoopInit ==
    /\ el = NoEventListener
    /\ ingress = FALSE
    /\ gitHooks = {}
    /\ lock = 1
    /\ nreq = 1
    /\ faults = 0
    /\ registered = {}
    /\ removed = {}
    /\ overlap = FALSE
    /\ gen = GenOff
    /\ call = CallOff
    /\ \E stored \in SUBSET (LoopNames \ {<<>>}) : \E toRemove \in SUBSET LoopNames :
          /\ bindings = {[Name |-> n, Params |-> <<>>] : n \in stored}
          /\ procs = [p \in Procs |->
                        IF p = 1
                        THEN [IdleProc EXCEPT !.pc = "dfBindings", !.kind = "delete",
                                              !.bindingsToRemove = toRemove]
                        ELSE IdleProc]

LoopNext == DfBindings(1) \/ Return(1)

LoopSpec == LoopInit /\ [][LoopNext]_vars

(***************************************************************************)
(* What the properties speak of.                                           *)
(***************************************************************************)
Triggers == el.triggers
TriggerIndices == 1..Len(Triggers)

IsHookTrigger(t) ==
    HasSuffix(t.Name, PushEventSuffix) \/ HasSuffix(t.Name, PullRequestEventSuffix)

\* A monitor trigger: a named trigger that is no push or pull-request trigger.
IsMonitorTrigger(t) == t.Name # <<>> /\ ~IsHookTrigger(t)

RepositoryUrl(t) == HeaderValue(t, "Wext-Repository-Url", <<>>)

\* Two URLs of one repository: the same server, owner and repository under
\* compareGitRepoNames.
SameRepository(url1, url2) ==
    LET c == compareGitRepoNames(url1, url2) IN c.status = "ok" /\ c.match

\* The monitor triggers of the repository of url.
MonitorsOf(url) ==
    {i \in TriggerIndices : /\ IsMonitorTrigger(Triggers[i])
                            /\ SameRepository(RepositoryUrl(Triggers[i]), url)}

\* The push and pull-request triggers made for webhook w are in the listener.
HasTriggersOf(w) ==
    /\ el.exists
    /\ \A suffix \in {PushEventSuffix, PullRequestEventSuffix} :
          \E i \in TriggerIndices :
             /\ Triggers[i].Name = w.Name \o Dash \o w.Namespace \o suffix
             /\ RepositoryUrl(Triggers[i]) = w.GitRepositoryURL
             /\ Triggers[i].Template = w.Pipeline \o TemplateSuffix

\* The registrations in the collection, as the service reads them back.
Registrations == getWebhooksFromEventListener(el, bindings)
RegistrationIndices == 1..Len(Registrations)

\* A goroutine inside a handler, past Lock and before the deferred Unlock.
InHandler(p) == procs[p].pc \notin {"idle", "lock"}

Returning(p, kind) == procs[p].pc = "done" /\ procs[p].kind = kind

(***************************************************************************)
(* C1: two createWebhook requests for two different repositories, each    *)
(* with a body the handler accepts, served at the same time from an absent *)
(* listener with no call failing: when the second is about to return, both *)
(* have status 201 and the listener has the push and pull-request triggers *)
(* of both.                                                                *)
(***************************************************************************)
C1_ConcurrentCreatesKeepBoth ==
    \A p \in Procs : \A w \in Webhooks :
        ( /\ overlap
          /\ faults = 0
          /\ Returning(p, "create")
          /\ procs[p].request \in Webhooks
          /\ registered = {Sanitized(w)}
          /\ ~SameRepository(w.GitRepositoryURL, procs[p].webhook.GitRepositoryURL) )
        => /\ procs[p].status = 201
           /\ HasTriggersOf(Sanitized(w))
           /\ HasTriggersOf(procs[p].webhook)

C1_Witness ==
    \E p \in Procs : \E w \in Webhooks :
        /\ overlap
        /\ faults = 0
        /\ Returning(p, "create")
        /\ procs[p].request \in Webhooks
        /\ registered = {Sanitized(w)}
        /\ ~SameRepository(w.GitRepositoryURL, procs[p].webhook.GitRepositoryURL)
        /\ procs[p].status = 201
        /\ HasTriggersOf(Sanitized(w))
        /\ HasTriggersOf(procs[p].webhook)

(***************************************************************************)
(* C2: at most one goroutine is inside createWebhook or deleteWebhook,     *)
(* from its first read to its return, and it is the holder of the lock.    *)
(***************************************************************************)
C2_MutualExclusion ==
    \A p \in Procs :
        InHandler(p) => /\ lock = p
                        /\ \A q \in Procs \ {p} : ~InHandler(q)

\* A goroutine waits for the lock while the other calls the Git provider.
C2_Witness ==
    \E p \in Procs : \E q \in Procs \ {p} :
        /\ procs[p].pc \in {"cwAddWebhook", "dwRemove"}
        /\ procs[q].pc = "lock"
        /\ lock = p

(***************************************************************************)
(* C3: the listener never holds two monitor triggers of one repository,    *)
(* the repository being the server, owner and name of the trigger's URL    *)
(* without regard to letter case.                                          *)
(***************************************************************************)
C3_OneMonitorPerRepository ==
    \A i \in TriggerIndices : \A j \in TriggerIndices :
        ( /\ i # j
          /\ IsMonitorTrigger(Triggers[i])
          /\ IsMonitorTrigger(Triggers[j]) )
        => ~SameRepository(RepositoryUrl(Triggers[i]), RepositoryUrl(Triggers[j]))

\* Registrations under both spellings of the repository's URL, one monitor.
C3_Witness ==
    /\ \E w \in registered : w.GitRepositoryURL = UrlUpper /\ HasTriggersOf(w)
    /\ \E w \in registered : w.GitRepositoryURL = UrlLower /\ HasTriggersOf(w)
    /\ Cardinality(MonitorsOf(UrlUpper)) = 1

(***************************************************************************)
(* C4: when a create request is answered 201 and no delete request was     *)
(* served before it, the listener holds exactly one monitor trigger of the *)
(* request's repository.                                                   *)
(***************************************************************************)
C4_CreatesMakeOneMonitor ==
    \A p \in Procs :
        ( /\ Returning(p, "create")
          /\ procs[p].status = 201
          /\ removed = {} )
        => Cardinality(MonitorsOf(procs[p].webhook.GitRepositoryURL)) = 1

\* The third create of one repository in a row.
C4_Witness ==
    \E p \in Procs :
        /\ Returning(p, "create")
        /\ procs[p].status = 201
        /\ removed = {}
        /\ procs[p].webhook \notin registered
        /\ Cardinality({w \in registered :
              SameRepository(w.GitRepositoryURL,
                             procs[p].webhook.GitRepositoryURL)}) = 2
        /\ Cardinality(MonitorsOf(procs[p].webhook.GitRepositoryURL)) = 1

(***************************************************************************)
(* C5: when the first delete request that changes the collection is about *)
(* to return, no call having failed, a repository that still has a push    *)
(* or pull-request trigger in the listener, under any spelling of its URL, *)
(* still has its monitor trigger.                                          *)
(***************************************************************************)
C5_DeleteRetainsMonitor ==
    \A p \in Procs :
        ( /\ Returning(p, "delete")
          /\ faults = 0
          /\ removed = {} )
        =>  \A i \in TriggerIndices :
                ( /\ el.exists
                  /\ IsHookTrigger(Triggers[i])
                  /\ SameRepository(RepositoryUrl(Triggers[i]),
                                    procs[p].request.GitRepositoryURL) )
                => MonitorsOf(procs[p].request.GitRepositoryURL) # {}

(***************************************************************************)
(* C6: when a delete request is about to be answered 204, no call having   *)
(* failed and no delete served before, the push and pull-request triggers  *)
(* of every other registration that was answered 201 are in the listener.  *)
(***************************************************************************)
C6_DeleteKeepsOtherTriggers ==
    \A p \in Procs :
        ( /\ Returning(p, "delete")
          /\ procs[p].status = 204
          /\ faults = 0
          /\ removed = {} )
        => \A w \in registered :
              ~( /\ w.Name = procs[p].request.Name
                 /\ w.Namespace = procs[p].request.Namespace
                 /\ w.GitRepositoryURL = procs[p].request.GitRepositoryURL )
              => HasTriggersOf(w)

(***************************************************************************)
(* C7: the names of the listener's triggers are pairwise distinct, in      *)
(* every state reached with no call having failed.                         *)
(***************************************************************************)
C7_TriggerNamesDistinct ==
    \A i \in TriggerIndices : \A j \in TriggerIndices :
        (faults = 0 /\ i # j) => Triggers[i].Name # Triggers[j].Name

(***************************************************************************)
(* C8: no two registrations in the collection whose URLs name one          *)
(* repository, without regard to letter case, run the same pipeline in the *)
(* same namespace, in every state reached with no call having failed.     *)
(***************************************************************************)
C8_PipelineNamespaceUnique ==
    \A i \in RegistrationIndices : \A j \in RegistrationIndices :
        ( /\ faults = 0
          /\ i # j
          /\ SameRepository(Registrations[i].GitRepositoryURL,
                            Registrations[j].GitRepositoryURL) )
        => ~( /\ Registrations[i].Pipeline = Registrations[j].Pipeline
              /\ Registrations[i].Namespace = Registrations[j].Namespace )

(***************************************************************************)
(* C9: all registrations in the collection whose URLs name one repository  *)
(* have the same pull task, in every state reached with no call having    *)
(* failed.                                                                 *)
(***************************************************************************)
C9_PullTaskShared ==
    \A i \in RegistrationIndices : \A j \in RegistrationIndices :
        ( /\ faults = 0
          /\ SameRepository(Registrations[i].GitRepositoryURL,
                            Registrations[j].GitRepositoryURL) )
        => Registrations[i].PullTask = Registrations[j].PullTask

(***************************************************************************)
(* C10: the name generateMonitorTriggerName returns is the prefix followed *)
(* by the decimal form of an integer in [0, 10000), and no trigger of the  *)
(* list it was given has that name.                                        *)
(***************************************************************************)
DigitValue(c) == (CHOOSE k \in 1..Len(Digits) : Digits[k] = c) - 1

IsDigits(s) == s # <<>> /\ \A k \in 1..Len(s) : \E d \in 1..Len(Digits) : Digits[d] = s[k]

\* strconv.Atoi on a sequence of digits
RECURSIVE Atoi(_)
Atoi(s) == IF s = <<>> THEN 0
           ELSE 10 * Atoi(SubSeq(s, 1, Len(s) - 1)) + DigitValue(s[Len(s)])

C10_GeneratedNameIsFree ==
    gen.pc = "returned" =>
        LET number == TrimPrefix(gen.suggestedName, gen.prefix)
        IN /\ HasPrefix(gen.suggestedName, gen.prefix)
           /\ IsDigits(number)
           /\ Itoa(Atoi(number)) = number
           /\ Atoi(number) \in 0..(RandLimit - 1)
           /\ \A k \in 1..Len(gen.existingTriggers) :
                 gen.existingTriggers[k].Name # gen.suggestedName

\* A name is returned while a trigger of the list has another name that
\* can be suggested.
C10_Witness ==
    /\ gen.pc = "returned"
    /\ \E k \in 1..Len(gen.existingTriggers) :
          gen.existingTriggers[k].Name = gen.prefix \o Itoa(0)
    /\ gen.suggestedName = gen.prefix \o Itoa(RandLimit - 1)

(***************************************************************************)
(* C11: a step in which createWebhook answers 400 (the request is refused  *)
(* for its content, for a conflict with a webhook of the repository, or    *)
(* for a missing template) is the handler's first step after Lock, and it  *)
(* leaves the listener, the bindings, the ingress and the provider's       *)
(* webhooks as they were.                                                  *)
(***************************************************************************)
C11_RejectedCreateChangesNothing ==
    [][\A p \in Procs :
          ( /\ procs[p].kind = "create"
            /\ procs[p].pc # "done"
            /\ procs'[p].pc = "done"
            /\ procs'[p].status = 400 )
          => /\ procs[p].pc = "cwRead"
             /\ UNCHANGED <<el, bindings, ingress, gitHooks>>]_vars

C11_Witness ==
    \E p \in Procs :
        /\ Returning(p, "create")
        /\ procs[p].status = 400
        /\ procs[p].request \in InvalidWebhooks
        /\ el.exists /\ Len(Triggers) >= 3
        /\ bindings # {}
        /\ ingress
        /\ gitHooks # {}

(***************************************************************************)
(* C12: with no call failing, a create that is about to call AddWebhook    *)
(* makes the first registration of its repository, and a delete that is    *)
(* about to call RemoveWebhook removes the last one: the listener holds no *)
(* other registration of the same server, owner and repository, letter     *)
(* case aside.                                                             *)
(***************************************************************************)
OtherRegistrationsOf(w) ==
    {i \in RegistrationIndices :
        /\ SameRepository(Registrations[i].GitRepositoryURL, w.GitRepositoryURL)
        /\ ~ ( /\ Registrations[i].Name = w.Name
               /\ Registrations[i].Namespace = w.Namespace
               /\ Registrations[i].GitRepositoryURL = w.GitRepositoryURL )}

C12_ProviderCalledByFirstAndLast ==
    \A p \in Procs :
        faults = 0 =>
            /\ procs[p].pc = "cwAddWebhook"
                  => OtherRegistrationsOf(procs[p].webhook) = {}
            /\ procs[p].pc = "dwRemove"
                  => OtherRegistrationsOf(procs[p].hooks[procs[p].i]) = {}

(***************************************************************************)
(* C13: a step in which createEventListener succeeds on an absent listener *)
(* creates the listener with exactly three triggers, named                 *)
(* name-namespace-push-event, name-namespace-pullrequest-event and         *)
(* owner.repo- followed by the decimal form of an integer in 0 .. 9999,    *)
(* and adds exactly two bindings to the store, a hook binding the first    *)
(* two triggers refer to and a monitor binding the third refers to.        *)
(***************************************************************************)
\* name is prefix followed by strconv.Itoa of an integer below RandLimit.
IsNumbered(name, prefix) ==
    /\ HasPrefix(name, prefix)
    /\ IsDigits(TrimPrefix(name, prefix))
    /\ Itoa(Atoi(TrimPrefix(name, prefix))) = TrimPrefix(name, prefix)
    /\ Atoi(TrimPrefix(name, prefix)) \in 0..(RandLimit - 1)

\* The step of goroutine p in which createEventListener returns a listener.
ListenerCreated(p) ==
    /\ procs[p].pc = "cwWrite"
    /\ ~procs[p].listener.exists
    /\ procs'[p].pc = "cwIngress"

C13_CreateMakesThreeTriggers ==
    [][\A p \in Procs :
          ListenerCreated(p) =>
             LET w == procs[p].webhook
                 t == el'.triggers
                 made == bindings' \ bindings
             IN /\ el'.exists
                /\ Len(t) = 3
                /\ t[1].Name = w.Name \o Dash \o w.Namespace \o PushEventSuffix
                /\ t[2].Name = w.Name \o Dash \o w.Namespace \o PullRequestEventSuffix
                /\ IsNumbered(t[3].Name,
                              GitHook(w.GitRepositoryURL).owner \o Dot \o
                                 GitHook(w.GitRepositoryURL).repo \o Dash)
                /\ bindings \subseteq bindings'
                /\ Cardinality(made) = 2
                /\ \E hook \in made : \E monitor \in made \ {hook} :
                      /\ HasPrefix(hook.Name, WextPrefix \o w.Name \o Dash)
                      /\ HasPrefix(monitor.Name,
                                   WextPrefix \o
                                   getMonitorBindingName(w.GitRepositoryURL, w.PullTask)
                                   \o Dash)
                      /\ t[1].Bindings[2].Ref = hook.Name
                      /\ t[2].Bindings[2].Ref = hook.Name
                      /\ t[3].Bindings[2].Ref = monitor.Name]_vars

\* A listener of three triggers was created for a URL with an upper-case
\* owner, no call having failed, and its ingress is about to be created.
C13_Witness ==
    \E p \in Procs :
        /\ procs[p].pc = "cwIngress"
        /\ faults = 0
        /\ nreq = 1
        /\ procs[p].webhook.GitRepositoryURL = UrlUpper
        /\ el.exists /\ Len(Triggers) = 3
        /\ Cardinality(bindings) = 2

(***************************************************************************)
(* C14: a step in which updateEventListener succeeds on a listener that    *)
(* holds a monitor trigger of the request's repository (the same server,   *)
(* owner and repository, letter case aside) writes the old trigger list    *)
(* followed by exactly the request's push and pull-request triggers, and   *)
(* adds exactly one binding to the store, the hook binding both new        *)
(* triggers refer to.                                                      *)
(***************************************************************************)
\* The step of goroutine p in which updateEventListener returns a listener.
ListenerUpdated(p) ==
    /\ procs[p].pc = "cwWrite"
    /\ procs[p].listener.exists
    /\ \/ procs'[p].pc = "cwAddWebhook"
       \/ procs'[p].pc = "done" /\ procs'[p].status = 201

C14_UpdateAppendsTwoTriggers ==
    [][\A p \in Procs :
          (ListenerUpdated(p) /\ MonitorsOf(procs[p].webhook.GitRepositoryURL) # {})
          => LET w == procs[p].webhook
                 n == Len(el.triggers)
                 t == el'.triggers
                 made == bindings' \ bindings
             IN /\ el'.exists
                /\ Len(t) = n + 2
                /\ SubSeq(t, 1, n) = el.triggers
                /\ t[n + 1].Name = w.Name \o Dash \o w.Namespace \o PushEventSuffix
                /\ t[n + 2].Name = w.Name \o Dash \o w.Namespace \o PullRequestEventSuffix
                /\ bindings \subseteq bindings'
                /\ Cardinality(made) = 1
                /\ \A hook \in made :
                      /\ HasPrefix(hook.Name, WextPrefix \o w.Name \o Dash)
                      /\ t[n + 1].Bindings[2].Ref = hook.Name
                      /\ t[n + 2].Bindings[2].Ref = hook.Name
                /\ t[n + 2].Bindings[2].Ref # <<>>]_vars

\* The listener was updated for a request whose URL is spelled unlike the
\* URL of the monitor trigger it found, and it holds five triggers.
C14_Witness ==
    \E p \in Procs :
        /\ procs[p].kind = "create"
        /\ procs[p].pc = "cwAddWebhook"
        /\ procs[p].listener.exists
        /\ faults = 0
        /\ Len(Triggers) = 5
        /\ Cardinality(MonitorsOf(procs[p].webhook.GitRepositoryURL)) = 1
        /\ \E i \in MonitorsOf(procs[p].webhook.GitRepositoryURL) :
              /\ i = 3
              /\ RepositoryUrl(Triggers[i]) # procs[p].webhook.GitRepositoryURL

(***************************************************************************)
(* C15: the second of two requests, no call having failed, is the delete   *)
(* of the registration the first request created, the only one in the      *)
(* listener: when it is about to return it has status 204, and the         *)
(* listener and the ingress are gone.                                      *)
(***************************************************************************)
\* The delete request d names the registration of webhook w.
Names(d, w) ==
    /\ d.Name = w.Name
    /\ d.Namespace = w.Namespace
    /\ d.GitRepositoryURL = w.GitRepositoryURL

C15_LastDeleteRemovesListener ==
    \A p \in Procs :
        ( /\ Returning(p, "delete")
          /\ faults = 0
          /\ nreq = 2
          /\ \E w \in registered : registered = {w} /\ Names(procs[p].request, w) )
        => /\ procs[p].status = 204
           /\ ~el.exists
           /\ ~ingress

(***************************************************************************)
(* C16: the step in which deleteWebhook reads a request that gives a       *)
(* namespace and a repository, while the listener holds no registration of *)
(* that repository and no call fails, answers 404 and leaves the listener, *)
(* the bindings, the ingress and the provider's webhooks as they were.     *)
(***************************************************************************)
RegistrationsOf(url) ==
    {i \in RegistrationIndices : SameRepository(Registrations[i].GitRepositoryURL, url)}

C16_DeleteUnknownRepositoryNotFound ==
    [][\A p \in Procs :
          ( /\ procs[p].pc = "dwRead"
            /\ procs'[p].pc # "dwRead"
            /\ faults' = faults
            /\ procs'[p].request.Namespace # <<>>
            /\ procs'[p].request.GitRepositoryURL # <<>>
            /\ RegistrationsOf(procs'[p].request.GitRepositoryURL) = {} )
          => /\ procs'[p].pc = "done"
             /\ procs'[p].status = 404
             /\ UNCHANGED <<el, bindings, ingress, gitHooks>>]_vars

(***************************************************************************)
(* C17: with no call having failed and no delete answered before, the      *)
(* records getWebhooksFromEventListener returns (the body of GET           *)
(* /webhooks) are, one for one, the registrations created and not deleted: *)
(* when no request is being served these are the webhooks of the creates   *)
(* answered 201, and when a delete is about to return with status 204      *)
(* they are these webhooks without the one the delete names.               *)
(***************************************************************************)
\* The record the service returns for webhook w.
IsRecordOf(record, w) ==
    /\ record.Name = w.Name
    /\ record.Namespace = w.Namespace
    /\ record.Pipeline = w.Pipeline
    /\ record.GitRepositoryURL = w.GitRepositoryURL

\* The returned records are the webhooks of live, each once.
ReturnsExactly(live) ==
    /\ \A w \in live :
          Cardinality({i \in RegistrationIndices : IsRecordOf(Registrations[i], w)}) = 1
    /\ \A i \in RegistrationIndices : \E w \in live : IsRecordOf(Registrations[i], w)

C17_GetReturnsLiveRegistrations ==
    (faults = 0 /\ removed = {}) =>
        /\ (\A p \in Procs : procs[p].pc = "idle") => ReturnsExactly(registered)
        /\ \A p \in Procs :
              ( /\ Returning(p, "delete")
                /\ procs[p].status = 204
                /\ \A q \in Procs \ {p} : procs[q].pc = "idle" )
              => ReturnsExactly({w \in registered : ~Names(procs[p].request, w)})

(***************************************************************************)
(* C18: getGitValues returns three values or an error for every input, and *)
(* never fails in another way; it returns the error for an input that      *)
(* starts with neither http:// nor https://, and for an input with fewer   *)
(* than two non-empty segments after the host.                             *)
(***************************************************************************)
\* strings.Split(s, "/")
RECURSIVE Split(_)
Split(s) ==
    IF Index(s, "/") < 0 THEN <<s>>
    ELSE <<SubSeq(s, 1, Index(s, "/"))>> \o Split(SubSeq(s, Index(s, "/") + 2, Len(s)))

\* url without the scheme it starts with.
WithoutScheme(url) ==
    IF HasPrefix(url, HttpsScheme) THEN TrimPrefix(url, HttpsScheme)
    ELSE TrimPrefix(url, HttpScheme)

\* The non-empty segments after the host.
PathSegments(url) ==
    {k \in 2..Len(Split(WithoutScheme(url))) : Split(WithoutScheme(url))[k] # <<>>}

C18_GitValuesOrError ==
    call.pc \in {"parsed", "compared"} =>
        /\ call.values.status \in {"ok", "err"}
        /\ (~HasPrefix(call.url1, HttpScheme) /\ ~HasPrefix(call.url1, HttpsScheme))
              => call.values.status = "err"
        /\ Cardinality(PathSegments(call.url1)) < 2 => call.values.status = "err"

(***************************************************************************)
(* C19: compareGitRepoNames(url, url) returns true for every string url.   *)
(***************************************************************************)
C19_CompareIsReflexive ==
    (call.pc = "compared" /\ call.url1 = call.url2) =>
        /\ call.same.status = "ok"
        /\ call.same.match

(***************************************************************************)
(* C20: a step in which createEventListener or updateEventListener fails,  *)
(* so that createWebhook answers 500, leaves the binding store with the    *)
(* bindings it had before: what createBindings created is deleted again.   *)
(***************************************************************************)
C20_FailedWriteRemovesBindings ==
    [][\A p \in Procs :
          ( /\ procs[p].pc = "cwWrite"
            /\ procs'[p].pc = "done"
            /\ procs'[p].status = 500 )
          => bindings' = bindings]_vars

(***************************************************************************)
(* C21: with no call having failed and no delete answered before, a delete *)
(* that is about to return with status 204, for a registration whose name  *)
(* no other registration has, leaves no binding wext-name-N, the hook      *)
(* binding created for that registration, in the store.                    *)
(***************************************************************************)
C21_DeleteRemovesHookBinding ==
    \A p \in Procs :
        ( /\ Returning(p, "delete")
          /\ procs[p].status = 204
          /\ faults = 0
          /\ removed = {}
          /\ \A w \in registered :
                w.Name = procs[p].request.Name => Names(procs[p].request, w) )
        => ~ \E b \in bindings :
                IsNumbered(b.Name, WextPrefix \o procs[p].request.Name \o Dash)

(***************************************************************************)
(* C22: deleteFromEventListener reaches the loop that deletes bindings     *)
(* (lines 1089-1095) only after the listener was written: it was then      *)
(* updated to the new trigger list or, the list being empty, deleted with  *)
(* its ingress.  No step of deleteFromEventListener before that loop       *)
(* changes the binding store.                                              *)
(***************************************************************************)
\* The listener is as deleteFromEventListener of goroutine p wrote it.
ListenerWritten(p) ==
    IF procs[p].newTriggers = <<>>
    THEN ~el.exists /\ ~ingress
    ELSE el.exists /\ el.triggers = procs[p].newTriggers

C22_ListenerWrittenBeforeBindings ==
    [][\A p \in Procs :
          /\ procs'[p].pc = "dfBindings" => ListenerWritten(p)'
          /\ procs[p].pc \in {"dfGet", "dfWrite"} => bindings' = bindings]_vars

\* The loop is about to call Delete for a binding name, after an update of
\* the listener and after a delete of the listener.
C22_Witness ==
    \E p \in Procs :
        /\ procs[p].pc = "dfBindings"
        /\ procs[p].bindingsToRemove # {}
        /\ el.exists
        /\ el.triggers = procs[p].newTriggers
        /\ bindings # {}

(***************************************************************************)
(* C23: a listener that exists holds at least one trigger, and a listener  *)
(* comes into being only in the step in which createEventListener, called  *)
(* by a create request that read no listener, succeeds.                    *)
(***************************************************************************)
C23_ListenerNeverEmpty ==
    [][/\ el'.exists => Len(el'.triggers) >= 1
       /\ (~el.exists /\ el'.exists) => \E p \in Procs : ListenerCreated(p)]_vars

\* deleteFromEventListener, called by a delete request, found no trigger to
\* keep and deleted the listener.
C23_Witness ==
    \E p \in Procs :
        /\ procs[p].pc = "dfBindings"
        /\ procs[p].kind = "delete"
        /\ procs[p].newTriggers = <<>>
        /\ ~el.exists
        /\ registered # {}

(***************************************************************************)
(* C24: when AddWebhook failed in a create request, the only call that     *)
(* failed, and deleteFromEventListener has written the listener to take    *)
(* the registration back, the listener is as the request read it: absent   *)
(* if it was absent, and with the same triggers in the same order if not.  *)
(***************************************************************************)
C24_RollbackRestoresTriggers ==
    \A p \in Procs :
        ( /\ procs[p].kind = "create"
          /\ procs[p].pc = "dfBindings"
          /\ faults = 1 )
        => el = procs[p].listener

NamesLastRegistration(d) ==
    /\ Cardinality(RegistrationsOf(d.GitRepositoryURL)) = 1
    /\ \A i \in RegistrationsOf(d.GitRepositoryURL) : Names(d, Registrations[i])

C26_ProviderRemovedFirst ==
    [][\A p \in Procs :
          /\ ( /\ procs[p].pc = "dwRead"
               /\ procs'[p].pc # "dwRead"
               /\ faults' = faults
               /\ NamesLastRegistration(procs'[p].request) )
             => /\ procs'[p].pc = "dwRemove"
                /\ UNCHANGED <<el, bindings, ingress, gitHooks>>
          /\ (procs[p].pc = "dwRemove" /\ procs'[p].pc # "dwRemove")
             => \/ /\ faults' = faults + 1
                   /\ procs'[p].pc = "done"
                   /\ procs'[p].status = 500
                   /\ UNCHANGED <<el, bindings, ingress, gitHooks>>
                \/ /\ faults' = faults
                   /\ procs'[p].pc = "dfGet"
                   /\ UNCHANGED <<el, bindings, ingress>>]_vars

\* RemoveWebhook failed in the delete of the only registration: the request
\* is about to return with status 500, and listener, bindings and the
\* provider's webhook are in place.
C26_Witness ==
    \E p \in Procs :
        /\ Returning(p, "delete")
        /\ procs[p].status = 500
        /\ faults = 1
        /\ nreq = 2
        /\ el.exists /\ Len(Triggers) = 3
        /\ Cardinality(bindings) = 2
        /\ gitHooks # {}
        /\ NamesLastRegistration(procs[p].request)

MaxCleanupFaults == 2

\* The sets of calls, among calls, that fail in one step of CleanupSpec.
CleanupFaultSets(calls) ==
    {f \in SUBSET calls : f = {} \/ Cardinality(f) <= MaxCleanupFaults - faults}

\* createEventListener or updateEventListener, called at lines 637-653;
\* each of its calls to the cluster may fail.
CleanupWrite(p) ==
    /\ procs[p].pc = "cwWrite"
    /\ \E f \in CleanupFaultSets({"hook", "monitor", "unhook", "write"}) :
          WriteWith(p, BindingPlan(procs[p]), f)

\* Lines 655-685; creating the ingress and deleting the listener may fail.
CleanupIngress(p) ==
    /\ procs[p].pc = "cwIngress"
    /\ \E f \in CleanupFaultSets({"ingress", "delete"}) :
          Apply(p, CreateIngressResult(procs[p], f), f)

CleanupNext ==
    \/ Receive(1, "create")
    \/ Lock(1)
    \/ Return(1)
    \/ CreateRead(1)
    \/ CleanupWrite(1)
    \/ CleanupIngress(1)
    \/ CreateAddWebhook(1)
    \/ DfGet(1)
    \/ DfWrite(1)
    \/ DfBindings(1)

CleanupSpec == Init /\ [][CleanupNext]_vars

\* The calls that take back what a failed createWebhook has made.
CleanupCalls == {"unhook", "delete", "deleteFromEventListener"}

\* C28: when a call that cleans up after a failed create (deleting the
\* bindings already created, deleting the listener, removing the entry of
\* the listener) fails itself, the error written to the response reports
\* the first failure and the failure of the clean-up.
C28_CleanupFailureIsReported ==
    \A p \in Procs :
        (/\ procs[p].pc = "done"
         /\ procs[p].kind = "create"
         /\ procs[p].failed \cap CleanupCalls # {})
        => procs[p].failed \subseteq procs[p].reported

\* The Wext-Repository-Url headers of the first interceptor of trigger t.
RepositoryUrlHeaders(t) ==
    {i \in 1..Len(t.Interceptors[1].Header) :
        t.Interceptors[1].Header[i].Name = "Wext-Repository-Url"}

\* C29: in every reachable state every trigger of the listener has a name
\* that is not empty and exactly one interceptor, which carries a
\* Wext-Repository-Url header; deleteFromEventListener writes back no
\* trigger that it did not read from the listener.
C29_TriggersAreWellFormed ==
    \A i \in TriggerIndices :
        /\ Triggers[i].Name # <<>>
        /\ Len(Triggers[i].Interceptors) = 1
        /\ Cardinality(RepositoryUrlHeaders(Triggers[i])) = 1

(***************************************************************************)
(* The service after a create request whose name starts with the owner and *)
(* the repository of its URL was read: createWebhook is about to call      *)
(* createEventListener.  The requests that follow are served one after the *)
(* other.                                                                  *)
(***************************************************************************)
\* The body of that request: its name starts with "o.r-", the prefix of the
\* monitor triggers of https://g/o/r.
PrefixNamedWebhook ==
    NewWebhook(<<"o",".","r","-","x">>, <<"c">>, <<"q">>, UrlLower, <<>>)

MonitorInit ==
    /\ el = NoEventListener
    /\ bindings = {}
    /\ ingress = FALSE
    /\ gitHooks = {}
    /\ lock = 1
    /\ procs = [p \in Procs |->
                  IF p = 1
                  THEN CreateReadResult([IdleProc EXCEPT !.pc = "cwRead",
                                                         !.kind = "create"],
                                        PrefixNamedWebhook, {}).proc
                  ELSE IdleProc]
    /\ nreq = 1
    /\ faults = 0
    /\ registered = {}
    /\ removed = {}
    /\ overlap = FALSE
    /\ gen = GenOff
    /\ call = CallOff

\* deleteWebhook, lines 803-853; the registration of PrefixNamedWebhook is
\* among those a request may name.
MonitorDeleteRead(p) ==
    /\ procs[p].pc = "dwRead"
    /\ \E d \in DeleteRequests \cup
                 {NewWebhook(PrefixNamedWebhook.Name, PrefixNamedWebhook.Namespace,
                             <<>>, PrefixNamedWebhook.GitRepositoryURL, <<>>)} :
       \E f \in FaultSets({"hooks"}) :
          Apply(p, DeleteReadResult(procs[p], d, f), f)

MonitorNext ==
    \/ Receive(1, "create")
    \/ Receive(1, "delete")
    \/ Lock(1)
    \/ Return(1)
    \/ CreateRead(1)
    \/ CreateWrite(1)
    \/ CreateIngress(1)
    \/ CreateAddWebhook(1)
    \/ MonitorDeleteRead(1)
    \/ DeleteRemove(1)
    \/ DfGet(1)
    \/ DfWrite(1)
    \/ DfBindings(1)

MonitorSpec == MonitorInit /\ [][MonitorNext]_vars

\* The trigger names that doesMonitorExist may return for webhook among
\* triggers: those that only monitor triggers of the webhook's repository have.
MonitorNamesOf(webhook, triggers) ==
    {triggers[i].Name : i \in {j \in 1..Len(triggers) :
        /\ IsMonitorTrigger(triggers[j])
        /\ SameRepository(RepositoryUrl(triggers[j]), webhook.GitRepositoryURL)}}
        \ {triggers[i].Name : i \in {j \in 1..Len(triggers) :
                                        IsHookTrigger(triggers[j])}}

\* What doesMonitorExist returns is not found, or a name of names.
FoundAmong(mon, names) == mon.found => mon.name \in names

\* C30: whenever doesMonitorExist, called by updateEventListener or by
\* deleteFromEventListener, reports found, the name it returns is the name
\* of a monitor trigger of the repository and never the name of a push or
\* pull-request trigger, also when a registration's name starts with
\* "{owner}.{repo}-".
C30_MonitorNameIsOfMonitorTrigger ==
    \A p \in Procs :
        /\ (procs[p].pc = "cwWrite" /\ procs[p].listener.exists)
           => FoundAmong(doesMonitorExist(procs[p].prefix, procs[p].webhook,
                                          procs[p].listener.triggers),
                         MonitorNamesOf(procs[p].webhook,
                                        procs[p].listener.triggers))
        /\ (procs[p].pc = "dfGet" /\ el.exists)
           => FoundAmong(doesMonitorExist(procs[p].prefix, procs[p].dfWebhook,
                                          el.triggers),
                         MonitorNamesOf(procs[p].dfWebhook, el.triggers))

(***************************************************************************)
(* The server when every request succeeds: a handler that answered         *)
(* anything but 201 or 204 is not followed further, so that every state    *)
(* in which the lock is free was reached by successful requests only.      *)
(***************************************************************************)
\* The handler returns after it answered 201 (line 718) or 204 (line 883).
ReturnSuccess(p) ==
    /\ procs[p].status \in {201, 204}
    /\ Return(p)

SuccessNext ==
    \E p \in Procs :
        \/ Receive(p, "create")
        \/ Receive(p, "delete")
        \/ Lock(p)
        \/ ReturnSuccess(p)
        \/ CreateRead(p)
        \/ CreateWrite(p)
        \/ CreateIngress(p)
        \/ CreateAddWebhook(p)
        \/ DeleteRead(p)
        \/ DeleteRemove(p)
        \/ DfGet(p)
        \/ DfWrite(p)
        \/ DfBindings(p)

SuccessSpec == Init /\ [][SuccessNext]_vars

\* The push and pull-request triggers of the repository of url.
HookTriggersOf(url) ==
    {i \in TriggerIndices : /\ IsHookTrigger(Triggers[i])
                            /\ SameRepository(RepositoryUrl(Triggers[i]), url)}

WextRefs(t) ==
    {t.Bindings[i].Ref : i \in {j \in 1..Len(t.Bindings) :
                                  HasPrefix(t.Bindings[j].Ref, WextPrefix)}}

\* C32: between requests every binding made by this service (its name
\* starts with "wext-") that a trigger of the listener refers to is in the
\* binding store; no create, delete or clean-up deletes a binding that a
\* trigger left in the listener refers to.
C32_ReferencedBindingsExist ==
    lock = 0 =>
        \A i \in TriggerIndices : WextRefs(Triggers[i]) \subseteq BindingNames(bindings)

\* A delete request was served, and the listener still has a trigger that
\* refers to a binding of this service.
C32_Witness ==
    /\ lock = 0
    /\ removed # {}
    /\ \E i \in TriggerIndices : WextRefs(Triggers[i]) # {}

\* The push and pull-request triggers in the listener that were made for
\* the registration that request d names.
TriggersOfRequest(d) ==
    {i \in TriggerIndices :
        /\ Triggers[i].Name \in {d.Name \o Dash \o d.Namespace \o PushEventSuffix,
                                 d.Name \o Dash \o d.Namespace \o PullRequestEventSuffix}
        /\ RepositoryUrl(Triggers[i]) = d.GitRepositoryURL}

\* C33: when createWebhook answers 201 the listener has the request's push
\* trigger, its pull-request trigger and a monitor trigger of its
\* repository; when deleteWebhook answers 204 the listener has neither the
\* push nor the pull-request trigger of the deleted registration.
C33_AnswerMatchesListener ==
    \A p \in Procs :
        /\ (Returning(p, "create") /\ procs[p].status = 201)
           => /\ HasTriggersOf(procs[p].webhook)
              /\ MonitorsOf(procs[p].webhook.GitRepositoryURL) # {}
        /\ (Returning(p, "delete") /\ procs[p].status = 204)
           => (el.exists => TriggersOfRequest(procs[p].request) = {})

(***************************************************************************)
(* The server under fair scheduling: every collaborator call returns, so   *)
(* a handler that can take its next step takes it, and sync.Mutex hands    *)
(* the mutex to a goroutine that keeps waiting for it.  The behaviours     *)
(* start when all requests but two have been refused for their content.    *)
(***************************************************************************)
LiveInit ==
    /\ el = NoEventListener
    /\ bindings = {}
    /\ ingress = FALSE
    /\ gitHooks = {}
    /\ lock = 0
    /\ procs = [p \in Procs |-> IdleProc]
    /\ nreq = MaxRequests - 2
    /\ faults = 0
    /\ registered = {}
    /\ removed = {}
    /\ overlap = FALSE
    /\ gen = GenOff
    /\ call = CallOff

\* A step of goroutine p's handler after Lock: any of CreateRead,
\* CreateWrite, CreateIngress, CreateAddWebhook, DeleteRead, DeleteRemove,
\* DfGet, DfWrite, DfBindings and Return, the steps of Next that change
\* procs[p] while p is in its handler.
HandlerStep(p) == InHandler(p) /\ procs'[p] # procs[p]

\* Weak fairness of HandlerStep(p), written out: a handler step is enabled
\* exactly when p is in its handler, since every collaborator call returns.
HandlerFair(p) == []<>(~InHandler(p)) \/ []<><<HandlerStep(p)>>_vars

LiveSpec ==
    /\ LiveInit
    /\ [][Next]_vars
    /\ \A p \in Procs : SF_vars(Lock(p)) /\ HandlerFair(p)

\* C34: createWebhook and deleteWebhook release the lock on every return
\* path: a goroutine whose handler has returned does not hold the lock, and
\* when every collaborator call returns a request that waits for the lock
\* acquires it in the end.
C34_LockIsReleased ==
    /\ [](\A p \in Procs : procs[p].pc \in {"idle", "lock"} => lock # p)
    /\ \A p \in Procs : (procs[p].pc = "lock") ~> (lock = p)

\* Goroutine 2, whose request came while goroutine 1 served one, holds the
\* lock after goroutine 1 answered 201 or failed, and returned.
C34_Witness ==
    /\ lock = 2
    /\ procs[1].pc = "idle"
    /\ registered # {} \/ faults > 0

(***************************************************************************)
(* generateMonitorTriggerName under fair scheduling: the loop goes on, and *)
(* rand.Intn does not avoid a value for ever.                              *)
(***************************************************************************)
\* Lines 214 and 221 give suggestedName the value prefix + Itoa(k).
GenPick(k) ==
    /\ \/ gen.pc = "start"
       \/ /\ gen.pc = "scan"
          /\ gen.i <= Len(gen.existingTriggers)
          /\ NameTaken(gen.existingTriggers[gen.i], gen.suggestedName)
    /\ GenNext
    /\ gen'.suggestedName = gen.prefix \o Itoa(k)

GenFairSpec ==
    /\ GenInit
    /\ [][GenNext]_vars
    /\ WF_vars(GenNext)
    /\ \A k \in Intn(RandLimit, GenRandSample) : SF_vars(GenPick(k))

\* A name that rand.Intn can lead to is the name of no existing trigger.
GenFreeName ==
    SuggestedNames(gen.prefix) \ TriggerNames(gen.existingTriggers) # {}

\* C35: generateMonitorTriggerName returns whenever one of the names
\* prefix + k it can suggest is the name of no supplied trigger, the random
\* choice taking every value in the end; when every such name is the name
\* of a supplied trigger it never returns.
C35_ReturnsIffNameIsFree ==
    /\ (gen.pc = "start" /\ GenFreeName) ~> (gen.pc = "returned")
    /\ [](~GenFreeName => gen.pc # "returned")

\* The call returned the one free name, the last of the supplied triggers
\* having the other name that can be suggested.
C35_Witness ==
    /\ gen.pc = "returned"
    /\ Len(gen.existingTriggers) = MaxExisting
    /\ gen.existingTriggers[MaxExisting].Name = gen.prefix \o Itoa(RandLimit - 1)
    /\ gen.suggestedName = gen.prefix \o Itoa(0)

====
